---- MODULE Spec2Model ----
(***************************************************************************)
(* Model of the swarm orchestrator: the turn loop of Swarm.generateText    *)
(* and of the background task of Swarm.streamText (src/src/swarm.ts), the  *)
(* context updates, and the stitchable stream of src/src/utils.ts.         *)
(***************************************************************************)
EXTENDS Integers, Sequences, FiniteSets, TLC

(***************************************************************************)
(* Bounds of the exploration.                                              *)
(***************************************************************************)
MaxTurnsBound == 2      \* largest global turn budget (maxTurns) tried
MaxCallIds == 2         \* tool calls the model generates in one run
MaxCallsPerStep == 2    \* tool calls the model generates in one step
MaxOob == 1             \* out-of-band updateContext calls
MaxSources == 3         \* streams added to the stitchable stream
MaxSrcLen == 2          \* events of one added stream
MaxDirect == 1          \* events enqueued directly into the stitchable stream
MaxEvents == 4          \* events of all the added streams together

(***************************************************************************)
(* Agents and their tools.  A is a router with two handover tools and a    *)
(* function tool that updates the context, B a specialist with a function  *)
(* tool and a handover back, L an agent whose only tool is a handover to   *)
(* itself.                                                                 *)
(***************************************************************************)
Agents == {"A", "B", "L"}

AgentTools(a) ==
    CASE a = "A" -> {"toB", "toL", "fnA"}
      [] a = "B" -> {"toA", "fnB"}
      [] a = "L" -> {"self"}

ToolType(t) == IF t \in {"fnA", "fnB"} THEN "function" ELSE "handover"

\* per-agent turn cap (config.maxTurns); 0 stands for "not set"
AgentCaps ==
    { [A |-> 0, B |-> 0, L |-> 0],
      [A |-> 2, B |-> 1, L |-> 1] }

(***************************************************************************)
(* Context objects: functions from a subset of Keys to values; "null" is   *)
(* the JSON null, a value like any other.  Undefined is `undefined`.       *)
(***************************************************************************)
Keys == {"topic", "user"}
Vals == {"null", "a", "b"}
Undefined == [undefined |-> "undefined"]
EmptyObj == [k \in {} |-> "null"]

\* {...x}: spreading undefined or null yields no keys
Spread(x) == IF x = Undefined THEN EmptyObj ELSE x

\* { ...c, ...u }
MergeNullDeletes(c, u) ==
    LET live == {k \in DOMAIN Spread(u) : Spread(u)[k] # "null"}
        keep == (DOMAIN Spread(c) \ DOMAIN Spread(u)) \cup live
    IN [k \in keep |-> IF k \in live THEN Spread(u)[k] ELSE Spread(c)[k]]
Merge(c, u) ==
    [k \in DOMAIN Spread(c) \cup DOMAIN Spread(u) |->
        IF k \in DOMAIN Spread(u) THEN Spread(u)[k] ELSE Spread(c)[k]]

InitialContext == [topic |-> "null"]

\* updates a caller passes to updateContext
OobUpdates == { [topic |-> "b", user |-> "null"] }

\* options.contextUpdate of an invocation
InvocationUpdates == { Undefined, [user |-> "b"] }

(***************************************************************************)
(* Messages.  calls / results are the ids of the tool-call and tool-result *)
(* parts of the content; inv tells the messages of the invocation (1) from *)
(* those that existed before it or were supplied by the caller (0).        *)
(***************************************************************************)
Msg(role, sender, calls, results, i) ==
    [role |-> role, sender |-> sender, calls |-> calls, results |-> results,
     inv |-> i]

UserMessage(i) == Msg("user", "-", <<>>, <<>>, i)

\* options.messages of a stateless invocation
SuppliedMessages == << UserMessage(0) >>

\* options.messages of the constructor
ConstructorMessages ==
    { << UserMessage(0), Msg("assistant", "A", <<>>, <<>>, 0) >> }

RECURSIVE CountRole(_, _)
CountRole(ms, role) ==
    IF ms = <<>> THEN 0
    ELSE (IF Head(ms).role = role THEN 1 ELSE 0) + CountRole(Tail(ms), role)

TerminalReasonsNoStop == {"length", "content-filter", "error"}
TerminalReasons == {"stop", "length", "content-filter", "error"}
FinishReasons ==
    {"stop", "length", "content-filter", "error", "tool-calls", "other"}

EmptyResult ==
    [finishReason |-> "none", toolCalls |-> <<>>, toolResults |-> <<>>,
     messages |-> <<>>]

VARIABLES
    queen,                    \* Swarm.queen
    returnToQueen,            \* Swarm.returnToQueen
    maxTurns,                 \* Swarm.maxTurns
    agentCaps,                \* config.maxTurns of every agent
    activeAgent,              \* Swarm._activeAgent
    context,                  \* Swarm.context
    messages,                 \* Swarm.messages
    pc,                       \* where the invocation stands
    mode,                     \* "generate" or "stream"
    options,                  \* the invocation's options
    initialMessages,
    responseMessages,
    processedHandoverCallIds,
    maxTotalSteps,
    initialAgent,
    lastResult,               \* the model call's result, built step by step
    callMaxSteps,             \* maxSteps given to the model call
    callSteps,                \* steps the model call has made
    handover,                 \* the handover executor call in flight
    result,                   \* what the invocation returned / resolved
    promises,                 \* the completion promises of streamText
    nextId,                   \* tool call ids used so far
    oob,                      \* out-of-band updates made so far
    rounds,                   \* history: model calls of this invocation
    executed,                 \* history: handover calls whose executor ran
    synthesized,              \* history: call ids given a synthesized result
    discarded,                \* history: handover calls passed over
    lastMerge,                \* history: the last context update applied
    innerStreamReaders,       \* createStitchableStream: readers of the sources
    isClosed,                 \* createStitchableStream: close() was called
    pull,                     \* where processPull stands, and pullAgain
    out,                      \* the outer ReadableStream and its consumer
    sources,                  \* what every added stream holds and has given
    producer,                 \* what the caller of the stream has done
    events,                   \* streamText: the chunks behind the event ids
    forks,                    \* streamText: textStream and fullStream
    finalText,                \* streamText: finalText of the background task
    completion,               \* streamText: the five completion promises
    task,                     \* streamText: where the background task stands
    dataStream,               \* toDataStream: the byte stream and its options
    wrappedTools,             \* wrapTools: the tools last given to the model client
    hive                      \* a Hive, the swarms spawned from it, their arrays

loopVars ==
    << queen, returnToQueen, maxTurns, agentCaps, activeAgent, context,
       messages, pc, mode, options, initialMessages, responseMessages,
       processedHandoverCallIds, maxTotalSteps, initialAgent, lastResult,
       callMaxSteps, callSteps, handover, result, promises, nextId, oob,
       rounds, executed, synthesized, discarded, lastMerge >>

streamVars == << innerStreamReaders, isClosed, pull, out, sources, producer >>

pipeVars == << events, forks, finalText, completion, task >>

\* the parts of the program that sit beside the turn loop
sideVars == << dataStream, wrappedTools, hive >>

vars == << loopVars, streamVars, pipeVars, sideVars >>

NoHandover == [active |-> FALSE]
NoResult == [status |-> "none"]
NoMerge == [path |-> "none"]

IdlePull == [pc |-> "idle", pullAgain |-> FALSE]

NewOut ==
    [state |-> "readable", queue |-> <<>>, closeRequested |-> FALSE,
     readPending |-> FALSE, delivered |-> <<>>, consumer |-> "open",
     error |-> "none"]

NoSources == [s \in {} |-> 0]

NewProducer == [closed |-> FALSE, direct |-> 0, threw |-> FALSE]

StreamInit ==
    /\ innerStreamReaders = <<>>
    /\ isClosed = FALSE
    /\ pull = IdlePull
    /\ out = NewOut
    /\ sources = NoSources
    /\ producer = NewProducer

\* the promises streamText returns
CompletionPromises == {"finishReason", "activeAgent", "text", "messages", "context"}

\* a fork of the output: the branch of the tee, the chunk its transforms hold
\* for the reader, what the reader got, and the event ids its transform saw
NewFork ==
    [queue |-> <<>>, held |-> <<>>, got |-> <<>>, seen |-> <<>>,
     state |-> "open", error |-> "none"]

NoEvents == [src |-> <<>>, direct |-> <<>>, agent |-> <<>>, ended |-> {}]

NoForks == [text |-> NewFork, full |-> NewFork, rest |-> <<>>]

NoTask == [state |-> "none"]

\* toDataStream has not been called
NoDataStream == [state |-> "none"]

\* wrapTools has not been called
NoTools == [called |-> FALSE]

\* no Hive has been made
NoHive == [made |-> FALSE]

SideInit ==
    /\ dataStream = NoDataStream
    /\ wrappedTools = NoTools
    /\ hive = NoHive

PipeInit ==
    /\ events = NoEvents
    /\ forks = NoForks
    /\ finalText = <<>>
    /\ completion = [p \in CompletionPromises |-> "none"]
    /\ task = NoTask

LoopInit ==
    /\ queen = "A"
    /\ returnToQueen \in BOOLEAN
    /\ maxTurns = MaxTurnsBound
    /\ agentCaps \in AgentCaps
    /\ activeAgent = queen
    /\ context = InitialContext
    /\ messages \in ConstructorMessages
    /\ pc = "idle"
    /\ mode = "generate"
    /\ options = [input |-> "content", contextUpdate |-> Undefined,
                  setAgent |-> "-", maxTurns |-> 0, returnToQueen |-> "undef"]
    /\ initialMessages = <<>>
    /\ responseMessages = <<>>
    /\ processedHandoverCallIds = {}
    /\ maxTotalSteps = 0
    /\ initialAgent = queen
    /\ lastResult = EmptyResult
    /\ callMaxSteps = 0
    /\ callSteps = 0
    /\ handover = NoHandover
    /\ result = NoResult
    /\ promises = "none"
    /\ nextId = 0
    /\ oob = 0
    /\ rounds = 0
    /\ executed = <<>>
    /\ synthesized = <<>>
    /\ discarded = {}
    /\ lastMerge = NoMerge

Init == LoopInit /\ StreamInit /\ PipeInit /\ SideInit

(***************************************************************************)
(* The model client (generateText / streamText of the AI SDK) as the turn  *)
(* loop sees it: a call makes up to maxSteps steps; a step yields one      *)
(* assistant message, runs the executors of the wrapped tools it calls     *)
(* and, when every call of the step got a result, goes on with a new step. *)
(***************************************************************************)
RECURSIVE SeqsUpTo(_, _)
SeqsUpTo(S, n) ==
    IF n = 0 THEN { <<>> }
    ELSE SeqsUpTo(S, n - 1) \cup
         { Append(q, x) : q \in { r \in SeqsUpTo(S, n - 1) : Len(r) = n - 1 }, x \in S }

\* the arguments the model generates for a call of tool t
ModelArgs(t) == IF t = "toB" THEN [topic |-> "b"] ELSE EmptyObj

ToolCall(id, t) == [toolCallId |-> id, toolName |-> t, args |-> ModelArgs(t)]

CallIds(calls) == [i \in 1..Len(calls) |-> calls[i].toolCallId]

\* every tool keeps its executor
HasExecutorAlways(t) == TRUE

\* wrapTools: a handover tool is given to the model client without executor
HasExecutor(t) == ToolType(t) = "function"

\* what the executor of function tool t returns as context
FunctionContext(t) == IF t = "fnA" THEN [user |-> "a"] ELSE Undefined

\* a wrapper that returns the result and drops the context
WrapperContextDropped(ctx, t) == ctx

\* wrapTools.functionWrapper: if (context) this.context = {...this.context, ...context}
WrapperContext(ctx, t) ==
    IF FunctionContext(t) # Undefined THEN Merge(ctx, FunctionContext(t)) ELSE ctx

RECURSIVE RunExecutors(_, _)
RunExecutors(ctx, calls) ==
    IF calls = <<>> THEN ctx
    ELSE RunExecutors(
            IF HasExecutor(Head(calls).toolName)
            THEN WrapperContext(ctx, Head(calls).toolName) ELSE ctx,
            Tail(calls))

\* what the executor of handover tool t returns, given its argument
HandoverResult(t, input) ==
    CASE t = "toB"  -> [agent |-> "B",
                        context |-> [topic |-> IF "topic" \in DOMAIN input
                                               THEN input.topic ELSE "null"]]
      [] t = "toL"  -> [agent |-> "L", context |-> Undefined]
      [] t = "toA"  -> [agent |-> "A", context |-> [topic |-> "null"]]
      [] t = "self" -> [agent |-> "L", context |-> Undefined]

\* a handover back to the agent itself does not fail
MayThrow(t) == t # "self"

(***************************************************************************)
(* Pieces of the turn loop.                                                *)
(***************************************************************************)
\* maxSteps: this._activeAgent.config.maxTurns ?? maxTotalSteps
MaxSteps(a, total) == IF agentCaps[a] # 0 THEN agentCaps[a] ELSE total

\* response.messages.map(message => ({...message, sender: name}))
TagSender(ms, a) == [i \in 1..Len(ms) |-> [ms[i] EXCEPT !.sender = a]]

UnhandledToolCalls(res, processed) ==
    LET resultIds == { res.toolResults[i] : i \in 1..Len(res.toolResults) }
    IN SelectSeq(res.toolCalls,
                 LAMBDA c : c.toolCallId \notin resultIds
                            /\ c.toolCallId \notin processed)

HandoverCalls(unhandled) ==
    SelectSeq(unhandled, LAMBDA c : ToolType(c.toolName) = "handover")

\* options.returnToQueen ?? this.returnToQueen
EffectiveReturnEither == options.returnToQueen = "true" \/ returnToQueen
EffectiveReturnToQueen ==
    IF options.returnToQueen = "undef" THEN returnToQueen
    ELSE options.returnToQueen = "true"

\* assistant messages the invocation has produced so far
Produced ==
    CountRole(responseMessages, "assistant")
    + (IF pc \in {"model", "returned"}
       THEN CountRole(lastResult.messages, "assistant") ELSE 0)

\* the history the instance keeps when the loop is over
FinalMessages(rm) ==
    IF mode = "generate"
    THEN messages
         \o (IF options.input = "content" THEN << UserMessage(1) >> ELSE <<>>)
         \o rm
    ELSE messages \o rm
         \o (IF options.input = "content" THEN << UserMessage(1) >> ELSE <<>>)

\* the queen whatever the setting
CompletionAgentQueen(aa) == queen

\* if (options.returnToQueen ?? this.returnToQueen) this._activeAgent = this.queen
CompletionAgent(aa) == IF EffectiveReturnToQueen THEN queen ELSE aa

\* leaving the loop: store the state, return the result
Finalize(aa, ctx, rm) ==
    /\ pc' = "done"
    /\ messages' = FinalMessages(rm)
    /\ activeAgent' = CompletionAgent(aa)
    /\ result' = [status |-> "returned", finishReason |-> lastResult.finishReason,
                  activeAgent |-> activeAgent', context |-> ctx, loopAgent |-> aa]
    /\ promises' = IF mode = "stream" THEN "resolved" ELSE promises
    /\ UNCHANGED << initialAgent, lastResult, callMaxSteps, callSteps, rounds >>

\* the top of the do-while body: a model call for the active agent
StartRound(aa, total) ==
    /\ pc' = "model"
    /\ initialAgent' = aa
    /\ lastResult' = EmptyResult
    /\ callMaxSteps' = MaxSteps(aa, total)
    /\ callSteps' = 0
    /\ rounds' = rounds + 1

\* while (responseMessages.filter(assistant).length < maxTotalSteps)
LoopAgainLoose(rm) == CountRole(rm, "assistant") <= maxTotalSteps
LoopAgain(rm) == CountRole(rm, "assistant") < maxTotalSteps

\* a loop that never breaks on the agent's cap
AgentCapIgnored(rm) == FALSE

\* if this one agent reached their max calls, break
AgentCapReached(rm) ==
    /\ agentCaps[initialAgent] # 0
    /\ agentCaps[initialAgent] = CountRole(lastResult.messages, "assistant")
    /\ CountRole(rm, "assistant") < maxTotalSteps

\* the end of the do-while body
RoundEnd(aa, ctx, rm) ==
    IF AgentCapReached(rm) \/ ~LoopAgain(rm)
    THEN Finalize(aa, ctx, rm)
    ELSE /\ StartRound(aa, maxTotalSteps)
         /\ UNCHANGED << messages, activeAgent, result, promises >>

(***************************************************************************)
(* Operations.                                                             *)
(***************************************************************************)
InvocationOptions ==
    [ input : {"content", "messages"},
      contextUpdate : InvocationUpdates,
      setAgent : {"-", "L"},
      maxTurns : 0..(MaxTurnsBound - 1),
      returnToQueen : {"undef", "true", "false"} ]

\* this.messages once handleUpdatesAndOverrides has run; the user message goes
\* to a copy (initialMessages), not to the history
HistoryAtStartWithUser(o, msgs) ==
    IF o.input = "content" THEN Append(msgs, UserMessage(1)) ELSE msgs
HistoryAtStart(o, msgs) == msgs

\* generateText (m = "generate") / streamText (m = "stream") with options o,
\* up to the first model call
Invoke(m, o) ==
    /\ pc = "idle"
    /\ LET aa == IF o.setAgent # "-" THEN o.setAgent ELSE activeAgent
           msgs == IF o.input = "messages" THEN SuppliedMessages ELSE messages
           total == IF o.maxTurns # 0 THEN o.maxTurns ELSE maxTurns
       IN /\ mode' = m
          /\ options' = o
          /\ activeAgent' = aa
          /\ messages' = HistoryAtStart(o, msgs)
          /\ context' = Merge(context, o.contextUpdate)
          /\ lastMerge' = [path |-> "invocation", before |-> context,
                           update |-> o.contextUpdate]
          /\ initialMessages' =
                 IF o.input = "messages" THEN msgs
                 ELSE Append(msgs, UserMessage(1))
          /\ responseMessages' = <<>>
          /\ processedHandoverCallIds' = {}
          /\ maxTotalSteps' = total
          /\ promises' = IF m = "stream" THEN "pending" ELSE "none"
          /\ StartRound(aa, total)
    /\ UNCHANGED << queen, returnToQueen, maxTurns, agentCaps, handover,
                    result, nextId, oob, executed, synthesized, discarded >>

\* an invocation seen without its output stream
StartInvocation ==
    /\ pc = "idle"
    /\ UNCHANGED sideVars
    /\ \E m \in {"generate", "stream"}, o \in InvocationOptions : Invoke(m, o)
    /\ UNCHANGED streamVars
    /\ UNCHANGED pipeVars

\* one step of the model call in flight: the model calls the tools `names`
\* and the step finishes with reason fr
ModelStepBody(names, fr) ==
    /\ pc = "model"
    /\ IF names = <<>> THEN fr # "tool-calls" ELSE fr \in {"tool-calls", "stop"}
    /\ LET calls == [i \in 1..Len(names) |-> ToolCall(nextId + i, names[i])]
           resolved == SelectSeq(calls, LAMBDA c : HasExecutor(c.toolName))
           newMsgs ==
               << Msg("assistant", "-", CallIds(calls), <<>>, 1) >>
               \o (IF resolved # <<>>
                   THEN << Msg("tool", "-", <<>>, CallIds(resolved), 1) >>
                   ELSE <<>>)
           ctx == RunExecutors(context, calls)
           goOn == /\ calls # <<>>
                   /\ Len(resolved) = Len(calls)
                   /\ callSteps + 1 < callMaxSteps
       IN /\ nextId' = nextId + Len(names)
          /\ callSteps' = callSteps + 1
          /\ context' = ctx
          /\ lastMerge' =
                 IF \E i \in 1..Len(resolved) :
                       FunctionContext(resolved[i].toolName) # Undefined
                 THEN [path |-> "function", before |-> context,
                       update |-> FunctionContext("fnA")]
                 ELSE NoMerge
          /\ lastResult' =
                 [finishReason |-> fr, toolCalls |-> calls,
                  toolResults |-> CallIds(resolved),
                  messages |-> lastResult.messages \o newMsgs]
          /\ pc' = IF goOn THEN "model" ELSE "returned"
    /\ UNCHANGED << queen, returnToQueen, maxTurns, agentCaps, activeAgent,
                    messages, mode, options, initialMessages, responseMessages,
                    processedHandoverCallIds, maxTotalSteps, initialAgent,
                    callMaxSteps, handover, result, promises, oob, rounds,
                    executed, synthesized, discarded >>

\* a step within the bound on the tool calls of one run
ModelStepWith(names, fr) ==
    /\ pc = "model"
    /\ nextId + Len(names) <= MaxCallIds
    /\ ModelStepBody(names, fr)

\* a model step of an invocation seen without its output stream
ModelStep ==
    /\ pc = "model"
    /\ UNCHANGED sideVars
    /\ \E names \in SeqsUpTo(AgentTools(activeAgent), MaxCallsPerStep),
          fr \in FinishReasons : ModelStepWith(names, fr)
    /\ UNCHANGED streamVars
    /\ UNCHANGED pipeVars

\* the model call fails: generateText rejects, streamText's task catches
ModelThrowLoop ==
    /\ pc = "model"
    /\ pc' = "failed"
    /\ result' = [status |-> "rejected", cause |-> "model"]
    /\ promises' = IF mode = "stream" THEN "rejected" ELSE promises
    /\ UNCHANGED << queen, returnToQueen, maxTurns, agentCaps, activeAgent,
                    context, messages, mode, options, initialMessages,
                    responseMessages, processedHandoverCallIds, maxTotalSteps,
                    initialAgent, lastResult, callMaxSteps, callSteps,
                    handover, nextId, oob, rounds, executed, synthesized, discarded >>
    /\ lastMerge' = NoMerge

\* ModelThrow of an invocation seen without its output stream
ModelThrow ==
    /\ ModelThrowLoop
    /\ UNCHANGED sideVars
    /\ UNCHANGED streamVars
    /\ UNCHANGED pipeVars

\* the handover call the loop honours: handoverCalls[0]
HonouredLast(handoverCalls) == Len(handoverCalls)
Honoured(handoverCalls) == 1

\* the loop body from the model call's return to the handover executor call
AfterModelLoop ==
    /\ pc = "returned"
    /\ LET rm == responseMessages \o TagSender(lastResult.messages, activeAgent)
           unhandledToolCalls ==
               UnhandledToolCalls(lastResult, processedHandoverCallIds)
           handoverCalls == HandoverCalls(unhandledToolCalls)
       IN /\ responseMessages' = rm
          /\ IF \/ lastResult.finishReason \in TerminalReasons
                \/ (unhandledToolCalls = <<>> /\ handoverCalls = <<>>)
             THEN /\ Finalize(activeAgent, context, rm)
                  /\ UNCHANGED handover
             ELSE IF handoverCalls # <<>>
             THEN /\ pc' = "handover"
                  /\ handover' =
                         [active |-> TRUE,
                          call |-> handoverCalls[Honoured(handoverCalls)],
                          input |-> Merge(handoverCalls[Honoured(handoverCalls)].args,
                                          context),
                          unused |-> { handoverCalls[i].toolCallId :
                                          i \in 1..Len(handoverCalls) }
                                     \ { handoverCalls[Honoured(handoverCalls)].toolCallId }]
                  /\ UNCHANGED << messages, activeAgent, result, promises,
                                  initialAgent, lastResult, callMaxSteps,
                                  callSteps, rounds >>
             ELSE /\ RoundEnd(activeAgent, context, rm)
                  /\ UNCHANGED handover
          /\ executed' =
                 IF /\ lastResult.finishReason \notin TerminalReasons
                    /\ handoverCalls # <<>>
                 THEN Append(executed,
                             [toolCallId |->
                                  handoverCalls[Honoured(handoverCalls)].toolCallId,
                              round |-> rounds])
                 ELSE executed
    /\ UNCHANGED << queen, returnToQueen, maxTurns, agentCaps, context, mode,
                    options, initialMessages, processedHandoverCallIds,
                    maxTotalSteps, nextId, oob, synthesized, discarded >>
    /\ lastMerge' = NoMerge

\* AfterModel of an invocation seen without its output stream
AfterModel ==
    /\ AfterModelLoop
    /\ UNCHANGED sideVars
    /\ UNCHANGED streamVars
    /\ UNCHANGED pipeVars

\* a clean-up that removes every tool call of the message
CleanCallsAll(rm, idx, unused) == [rm EXCEPT ![idx].calls = << >>]

\* the synthesized tool result of a handover and the removal of the unused
\* handover calls from the assistant message
CleanCalls(rm, idx, unused) ==
    [rm EXCEPT ![idx].calls = SelectSeq(@, LAMBDA id : id \notin unused)]

SynthesizeResult(rm, id, unused) ==
    IF mode = "generate"
    THEN CleanCalls(Append(rm, Msg("tool", "-", <<>>, << id >>, 1)),
                    Len(rm), unused)
    ELSE IF rm[Len(rm)].role = "tool"
         THEN CleanCalls([rm EXCEPT ![Len(rm)].results = Append(@, id)],
                         Len(rm) - 1, unused)
         ELSE CleanCalls(Append(rm, Msg("tool", "-", <<>>, << id >>, 1)),
                         Len(rm), unused)

\* the agent the loop makes active after a handover
HandoverAgentStays(res) == activeAgent
HandoverAgent(res) == res.agent

\* a loop that merges a handover's update into the context it read when it
\* started the executor
MergeTargetStale(current, snapshot) ==
    [k \in DOMAIN snapshot \cap Keys |-> snapshot[k]]

\* this.context = {...this.context, ...result.context}: the context is read
\* after the await of the executor
MergeTarget(current, snapshot) == current

\* the handover executor returned: apply its result
HandoverApplyLoop ==
    /\ pc = "handover"
    /\ LET call == handover.call
           res == HandoverResult(call.toolName, handover.input)
       IN /\ activeAgent' = HandoverAgent(res)
          /\ context' = IF res.context # Undefined
                        THEN Merge(MergeTarget(context, handover.input),
                                   res.context)
                        ELSE context
          /\ lastMerge' = IF res.context # Undefined
                          THEN [path |-> "handover", before |-> context,
                                update |-> res.context]
                          ELSE NoMerge
          /\ processedHandoverCallIds' =
                 processedHandoverCallIds \cup { call.toolCallId }
          /\ responseMessages' =
                 SynthesizeResult(responseMessages, call.toolCallId,
                                  handover.unused)
          /\ synthesized' = Append(synthesized, call.toolCallId)
          /\ handover' = [active |-> FALSE, call |-> call, returned |-> res,
                          before |-> context, round |-> rounds]
          /\ pc' = "afterHandover"
    /\ UNCHANGED << queen, returnToQueen, maxTurns, agentCaps, messages, mode,
                    options, initialMessages, maxTotalSteps, initialAgent,
                    lastResult, callMaxSteps, callSteps, result, promises,
                    nextId, oob, rounds, executed >>
    /\ discarded' = discarded \cup handover.unused

\* HandoverApply of an invocation seen without its output stream
HandoverApply ==
    /\ HandoverApplyLoop
    /\ UNCHANGED sideVars
    /\ UNCHANGED streamVars
    /\ UNCHANGED pipeVars

\* an invocation that gives the swarm back to its queen when it fails
AgentRestored(current, atStart) == atStart

\* the rejection of execute() leaves generateText at once: no statement of
\* the loop runs after it, and _activeAgent stays as the rounds left it
AgentAfterAbort(current, atStart) == current

\* the handover executor threw: generateText rejects, streamText's task catches
HandoverThrowLoop ==
    /\ pc = "handover"
    /\ MayThrow(handover.call.toolName)
    /\ pc' = "failed"
    /\ result' = [status |-> "rejected", cause |-> "handover"]
    /\ promises' = IF mode = "stream" THEN "rejected" ELSE promises
    /\ activeAgent' = AgentAfterAbort(activeAgent, queen)
    /\ UNCHANGED << queen, returnToQueen, maxTurns, agentCaps,
                    context, messages, mode, options, initialMessages,
                    responseMessages, processedHandoverCallIds, maxTotalSteps,
                    initialAgent, lastResult, callMaxSteps, callSteps,
                    handover, nextId, oob, rounds, executed, synthesized, discarded >>
    /\ lastMerge' = NoMerge

\* HandoverThrow of an invocation seen without its output stream
HandoverThrow ==
    /\ HandoverThrowLoop
    /\ UNCHANGED sideVars
    /\ UNCHANGED streamVars
    /\ UNCHANGED pipeVars

\* the rest of the loop body after a handover
AfterHandoverLoop ==
    /\ pc = "afterHandover"
    /\ RoundEnd(activeAgent, context, responseMessages)
    /\ UNCHANGED << queen, returnToQueen, maxTurns, agentCaps, context, mode,
                    options, initialMessages, responseMessages,
                    processedHandoverCallIds, maxTotalSteps, handover, nextId,
                    oob, executed, synthesized, discarded >>
    /\ lastMerge' = NoMerge

\* AfterHandover of an invocation seen without its output stream
AfterHandover ==
    /\ AfterHandoverLoop
    /\ UNCHANGED sideVars
    /\ UNCHANGED streamVars
    /\ UNCHANGED pipeVars

\* Swarm.updateContext, called before the invocation or while it is suspended
UpdateContext ==
    /\ oob < MaxOob
    /\ UNCHANGED sideVars
    /\ pc \in {"idle", "model", "returned", "handover"}
    /\ \E u \in OobUpdates :
         /\ context' = Merge(context, u)
         /\ lastMerge' = [path |-> "updateContext", before |-> context,
                          update |-> u]
    /\ oob' = oob + 1
    /\ UNCHANGED << queen, returnToQueen, maxTurns, agentCaps, activeAgent,
                    messages, pc, mode, options, initialMessages,
                    responseMessages, processedHandoverCallIds, maxTotalSteps,
                    initialAgent, lastResult, callMaxSteps, callSteps,
                    handover, result, promises, nextId, rounds, executed,
                    synthesized, discarded >>
    /\ UNCHANGED streamVars
    /\ UNCHANGED pipeVars

\* an invocation on a swarm
Next ==
    \/ StartInvocation
    \/ ModelStep
    \/ ModelThrow
    \/ AfterModel
    \/ HandoverApply
    \/ HandoverThrow
    \/ AfterHandover
    \/ UpdateContext

Spec == Init /\ [][Next]_vars

(***************************************************************************)
(* Properties of the turn loop.                                            *)
(***************************************************************************)
\* r has every key of c and of u, u's value where u has the key, c's elsewhere
IsShallowMerge(c, u, r) ==
    LET uu == IF u = Undefined THEN EmptyObj ELSE u
    IN /\ r # Undefined
       /\ DOMAIN r = DOMAIN c \cup DOMAIN uu
       /\ \A k \in DOMAIN r : r[k] = IF k \in DOMAIN uu THEN uu[k] ELSE c[k]

ExecutedIds == { executed[i].toolCallId : i \in 1..Len(executed) }
SynthesizedIds == { synthesized[i] : i \in 1..Len(synthesized) }

\* the tool-result parts with call id d in a list of messages
ResultParts(ms, d) ==
    { <<i, j>> \in (1..Len(ms)) \X (1..(MaxCallIds + 1)) :
        j <= Len(ms[i].results) /\ ms[i].results[j] = d }

\* the handover calls of the last model step that got no result, in order
UnresolvedHandovers ==
    SelectSeq(lastResult.toolCalls,
              LAMBDA c : /\ c.toolName \in {"toA", "toB", "toL", "self"}
                         /\ \A i \in 1..Len(lastResult.toolResults) :
                                lastResult.toolResults[i] # c.toolCallId)

TargetOf(t) ==
    CASE t = "toA" -> "A" [] t = "toB" -> "B" [] t \in {"toL", "self"} -> "L"

\* C1: with a global turn budget N >= 1 and an agent whose only action is a
\* handover back to itself, an invocation never makes more than N model
\* calls; with N = 1 it ends after exactly one round, no handover error is
\* raised, and the result carries the finish reason of that round.
C1_SelfHandoverTerminates ==
    (pc # "idle" /\ initialAgent = "L") =>
        /\ maxTotalSteps >= 1
        /\ rounds <= maxTotalSteps
        /\ callSteps <= callMaxSteps
        /\ (pc = "failed" => result.cause = "model")
        /\ (pc = "done" /\ maxTotalSteps = 1 =>
               /\ rounds = 1
               /\ result.status = "returned"
               /\ result.finishReason = lastResult.finishReason)

C1_Witness ==
    /\ pc = "done"
    /\ initialAgent = "L"
    /\ maxTotalSteps = 1
    /\ rounds = 1
    /\ Len(executed) = 1
    /\ result.finishReason = "tool-calls"

\* C2: the assistant messages an invocation has produced, over all rounds and
\* agents, never number more than the global turn budget.
C2_GlobalBudget == pc # "idle" => Produced <= maxTotalSteps

\* C3: right after the loop has applied a handover, activeAgent is the agent
\* the executor returned and the context is the shallow merge of the context
\* before it with the returned update (unchanged when none was returned).
C3_HandoverApplied ==
    pc = "afterHandover" =>
        /\ activeAgent = handover.returned.agent
        /\ activeAgent = TargetOf(handover.call.toolName)
        /\ IsShallowMerge(handover.before, handover.returned.context, context)

C3_Witness ==
    /\ pc = "afterHandover"
    /\ mode = "stream"
    /\ handover.returned.context # Undefined
    /\ context # handover.before
    /\ activeAgent # initialAgent

\* C4: every context update path (updateContext, the invocation's
\* contextUpdate, a function tool's context, a handover's context) is a
\* shallow merge, null being stored as a value, and the context is never
\* undefined.
C4_ShallowMerge ==
    /\ context # Undefined
    /\ DOMAIN context \subseteq Keys
    /\ lastMerge.path # "none" =>
           IsShallowMerge(lastMerge.before, lastMerge.update, context)

C4_Witness ==
    /\ lastMerge.path = "handover"
    /\ lastMerge.update = [topic |-> "null"]
    /\ lastMerge.before.topic = "b"
    /\ "user" \in DOMAIN context
    /\ context.topic = "null"

\* C5: of several unresolved handover calls of one model step only the first
\* is honoured: one executor runs per round, for the first call; activeAgent
\* becomes its target; that call gets exactly one synthesized result; the
\* other calls are never executed and never get a result.
C5_FirstHandoverOnly ==
    /\ \A i, j \in 1..Len(executed) :
           i # j => executed[i].round # executed[j].round
    /\ \A d \in discarded :
           /\ d \notin ExecutedIds
           /\ d \notin SynthesizedIds
           /\ ResultParts(responseMessages, d) = {}
           /\ ResultParts(messages, d) = {}
    /\ pc = "afterHandover" =>
           LET first == UnresolvedHandovers[1]
           IN /\ executed[Len(executed)] =
                     [toolCallId |-> first.toolCallId, round |-> rounds]
              /\ activeAgent = TargetOf(first.toolName)
              /\ Cardinality({ i \in 1..Len(synthesized) :
                                 synthesized[i] = first.toolCallId }) = 1
              /\ Cardinality(ResultParts(responseMessages, first.toolCallId)) = 1
              /\ { UnresolvedHandovers[i].toolCallId :
                      i \in 2..Len(UnresolvedHandovers) } \subseteq discarded

C5_Witness ==
    /\ pc = "afterHandover"
    /\ Len(UnresolvedHandovers) = 2
    /\ UnresolvedHandovers[1].toolName # UnresolvedHandovers[2].toolName
    /\ UnresolvedHandovers[2].toolCallId \in discarded

\* C6: a round whose finish reason is stop, length, content-filter or error
\* ends the loop: the step after the model call's return makes no model
\* call, runs no handover executor, leaves activeAgent alone (but for the
\* return to the queen on completion) and returns that finish reason.
C6_TerminalReasonEndsLoop ==
    [][ (pc = "returned" /\ pc' # "returned"
         /\ lastResult.finishReason \in {"stop", "length", "content-filter", "error"})
        => /\ pc' = "done"
           /\ rounds' = rounds
           /\ executed' = executed
           /\ synthesized' = synthesized
           /\ result'.loopAgent = activeAgent
           /\ activeAgent' \in {activeAgent, queen}
           /\ result'.finishReason = lastResult.finishReason ]_vars

C6_Witness ==
    /\ pc = "done"
    /\ lastResult.finishReason = "stop"
    /\ Len(UnresolvedHandovers) > 0
    /\ executed = <<>>
    /\ result.finishReason = "stop"

\* C7 as stated: if returnToQueen is set on the swarm or in the options,
\* activeAgent is the queen on completion; if it is set nowhere, activeAgent
\* stays the agent the loop ended on.
C7_ReturnToQueenEither ==
    pc = "done" =>
        IF returnToQueen \/ options.returnToQueen = "true"
        THEN activeAgent = queen
        ELSE activeAgent = result.loopAgent

\* C7 amended: the option of the invocation overrides the swarm's setting:
\* activeAgent is the queen on completion iff options.returnToQueen is true,
\* or is undefined while the swarm's returnToQueen is true; otherwise
\* activeAgent stays the agent the loop ended on.
C7_ReturnToQueenOverride ==
    pc = "done" =>
        /\ result.activeAgent = activeAgent
        /\ IF \/ options.returnToQueen = "true"
              \/ (options.returnToQueen = "undef" /\ returnToQueen)
           THEN activeAgent = queen
           ELSE activeAgent = result.loopAgent

C7_Witness ==
    /\ pc = "done"
    /\ returnToQueen
    /\ options.returnToQueen = "false"
    /\ activeAgent = "B"
    /\ queen = "A"

\* C8: when a handover executor throws during generateText the invocation
\* rejects without a result, and the history holds no message of the failed
\* invocation: neither its user message nor any message of its transcript.
C8_FailedInvocationLeavesHistory ==
    (pc = "failed" /\ mode = "generate" /\ result.cause = "handover") =>
        /\ result.status = "rejected"
        /\ \A i \in 1..Len(messages) : messages[i].inv = 0

C8_Witness ==
    /\ pc = "failed"
    /\ mode = "generate"
    /\ result.cause = "handover"
    /\ options.input = "content"
    /\ rounds = 2
    /\ Len(responseMessages) >= 3

(***************************************************************************)
(* createStitchableStream (src/src/utils.ts).  `out` is the outer          *)
(* ReadableStream with its default controller and its one reader; `pull`   *)
(* is the run of processPull the stream has asked for, if any.  An event   *)
(* is <<s, i>>: the i-th event of source s, or <<0, i>> when it was        *)
(* enqueued directly.                                                      *)
(***************************************************************************)
HighWaterMark == 1

CanCloseOrEnqueue(o) == o.state = "readable" /\ ~o.closeRequested

ShouldCallPull(o) ==
    CanCloseOrEnqueue(o) /\ (o.readPending \/ Len(o.queue) < HighWaterMark)

\* controller.enqueue(x): a pending read gets the chunk at once
CtrlEnqueue(o, x) ==
    IF ~CanCloseOrEnqueue(o) THEN [out |-> o, threw |-> TRUE]
    ELSE IF o.readPending
    THEN [out |-> [o EXCEPT !.readPending = FALSE,
                            !.delivered = Append(@, x)],
          threw |-> FALSE]
    ELSE [out |-> [o EXCEPT !.queue = Append(@, x)], threw |-> FALSE]

\* controller.close(): the stream closes once its queue is empty
CtrlClose(o) ==
    IF ~CanCloseOrEnqueue(o) THEN [out |-> o, threw |-> TRUE]
    ELSE IF o.queue = <<>>
    THEN [out |-> [o EXCEPT !.closeRequested = TRUE, !.state = "closed",
                            !.readPending = FALSE,
                            !.consumer = IF o.readPending THEN "done" ELSE @],
          threw |-> FALSE]
    ELSE [out |-> [o EXCEPT !.closeRequested = TRUE], threw |-> FALSE]

\* controller.error(e): the queue is dropped and every read is rejected
CtrlError(o, e) ==
    IF o.state # "readable" THEN o
    ELSE [o EXCEPT !.state = "errored", !.queue = <<>>, !.error = e,
                   !.readPending = FALSE,
                   !.consumer = IF o.readPending THEN "errored" ELSE @]

\* the stream asks for a pull, or notes that it must ask again
CallPull(p, o) ==
    IF ~ShouldCallPull(o) THEN p
    ELSE IF p.pc # "idle" THEN [p EXCEPT !.pullAgain = TRUE]
    ELSE [p EXCEPT !.pc = "called"]

\* the promise of processPull is fulfilled
PullFulfilled(p, o) ==
    IF p.pullAgain /\ ShouldCallPull(o)
    THEN [pc |-> "called", pullAgain |-> FALSE]
    ELSE IdlePull

\* waitForNewStream.resolve()
Wake(p) == IF p.pc = "waitNew" THEN [p EXCEPT !.pc = "woken"] ELSE p

\* innerStreamReaders.shift()
Shift(rs) == IF rs = <<>> THEN rs ELSE Tail(rs)

\* the reader processPull reads from: innerStreamReaders[0]
ActiveReaderLast(rs) == rs[Len(rs)]
ActiveReader(rs) == rs[1]

\* the catch block of processPull (case 5); rejected: the block itself threw
CatchBlock(o, rs, e) ==
    LET o1 == CtrlError(o, e)
        rs1 == Shift(rs)
    IN IF isClosed /\ rs1 = <<>>
       THEN [out |-> CtrlClose(o1).out, readers |-> rs1,
             rejected |-> CtrlClose(o1).threw]
       ELSE [out |-> o1, readers |-> rs1, rejected |-> FALSE]

\* how processPull ends after its catch block ran; a rejected pull errors
\* the stream
AfterCatch(c) ==
    /\ innerStreamReaders' = c.readers
    /\ out' = IF c.rejected THEN CtrlError(c.out, "TypeError") ELSE c.out
    /\ pull' = IF c.rejected THEN IdlePull ELSE PullFulfilled(pull, c.out)

\* the events of the first n added streams
RECURSIVE TotalLen(_)
TotalLen(n) == IF n = 0 THEN 0 ELSE TotalLen(n - 1) + sources[n].len

\* addStream(innerStream)
AddStream ==
    /\ Cardinality(DOMAIN sources) < MaxSources
    /\ UNCHANGED sideVars
    /\ ~producer.threw
    /\ IF isClosed
       THEN /\ producer' = [producer EXCEPT !.threw = TRUE]
            /\ UNCHANGED << innerStreamReaders, pull, sources >>
       ELSE \E len \in 0..MaxSrcLen, fails \in BOOLEAN :
              LET s == Cardinality(DOMAIN sources) + 1
              IN /\ TotalLen(s - 1) + len <= MaxEvents
                 /\ sources' = sources @@
                        (s :> [len |-> len, fails |-> fails, read |-> 0,
                               failed |-> FALSE])
                 /\ innerStreamReaders' = Append(innerStreamReaders, s)
                 /\ pull' = Wake(pull)
                 /\ UNCHANGED producer
    /\ UNCHANGED << isClosed, out >>
    /\ UNCHANGED loopVars
    /\ UNCHANGED pipeVars

\* close()
CloseStream ==
    /\ ~producer.closed
    /\ UNCHANGED sideVars
    /\ ~producer.threw
    /\ isClosed' = TRUE
    /\ pull' = Wake(pull)
    /\ IF innerStreamReaders = <<>>
       THEN /\ out' = CtrlClose(out).out
            /\ producer' = [producer EXCEPT !.closed = TRUE,
                                            !.threw = CtrlClose(out).threw]
       ELSE /\ out' = out
            /\ producer' = [producer EXCEPT !.closed = TRUE]
    /\ UNCHANGED << innerStreamReaders, sources >>
    /\ UNCHANGED loopVars
    /\ UNCHANGED pipeVars

\* enqueue(c)
EnqueueDirect ==
    /\ producer.direct < MaxDirect
    /\ UNCHANGED sideVars
    /\ ~producer.threw
    /\ LET r == CtrlEnqueue(out, << 0, producer.direct + 1 >>)
       IN /\ out' = r.out
          /\ pull' = IF r.threw THEN pull ELSE CallPull(pull, r.out)
          /\ producer' = [producer EXCEPT !.direct = @ + 1, !.threw = r.threw]
    /\ UNCHANGED << innerStreamReaders, isClosed, sources >>
    /\ UNCHANGED loopVars
    /\ UNCHANGED pipeVars

\* processPull from its entry (or from the end of its wait) to its next await
PullBeginStep ==
    /\ pull.pc \in {"called", "woken"}
    /\ IF isClosed /\ innerStreamReaders = <<>>
       THEN \* case 1
            LET r == CtrlClose(out)
            IN /\ out' = IF r.threw THEN CtrlError(r.out, "TypeError") ELSE r.out
               /\ pull' = IF r.threw THEN IdlePull ELSE PullFulfilled(pull, r.out)
       ELSE IF innerStreamReaders = <<>>
       THEN \* case 2
            /\ pull' = [pull EXCEPT !.pc = "waitNew"]
            /\ out' = out
       ELSE /\ pull' = [pull EXCEPT !.pc = "reading"]
            /\ out' = out
    /\ UNCHANGED << innerStreamReaders, isClosed, sources, producer >>

\* PullBegin of a stitchable stream used by itself
PullBegin ==
    /\ PullBeginStep
    /\ UNCHANGED sideVars
    /\ UNCHANGED loopVars
    /\ UNCHANGED pipeVars

\* processPull once innerStreamReaders[0].read() has settled.  The nested
\* processPull of case 3 goes straight to the next read, and when it rejects
\* the readers are empty, so that the catch blocks of the enclosing runs do
\* what the innermost did.
ReadSettledStep ==
    /\ pull.pc = "reading"
    /\ LET s == ActiveReader(innerStreamReaders)
           src == sources[s]
       IN IF src.read < src.len
          THEN \* case 4
               LET r == CtrlEnqueue(out, << s, src.read + 1 >>)
               IN /\ sources' = [sources EXCEPT ![s].read = @ + 1]
                  /\ IF r.threw
                     THEN AfterCatch(CatchBlock(out, innerStreamReaders, "TypeError"))
                     ELSE /\ out' = r.out
                          /\ pull' = PullFulfilled(CallPull(pull, r.out), r.out)
                          /\ UNCHANGED innerStreamReaders
          ELSE IF ~src.fails
          THEN \* case 3
               /\ UNCHANGED sources
               /\ IF Shift(innerStreamReaders) # <<>>
                  THEN /\ innerStreamReaders' = Shift(innerStreamReaders)
                       /\ UNCHANGED << out, pull >>
                  ELSE IF isClosed
                  THEN IF CtrlClose(out).threw
                       THEN AfterCatch(CatchBlock(out, Shift(innerStreamReaders),
                                                  "TypeError"))
                       ELSE /\ innerStreamReaders' = Shift(innerStreamReaders)
                            /\ out' = CtrlClose(out).out
                            /\ pull' = PullFulfilled(pull, CtrlClose(out).out)
                  ELSE /\ innerStreamReaders' = Shift(innerStreamReaders)
                       /\ out' = out
                       /\ pull' = PullFulfilled(pull, out)
          ELSE \* case 5
               /\ sources' = [sources EXCEPT ![s].failed = TRUE]
               /\ AfterCatch(CatchBlock(out, innerStreamReaders, "source"))
    /\ UNCHANGED << isClosed, producer >>

\* ReadSettled of a stitchable stream used by itself
ReadSettled ==
    /\ ReadSettledStep
    /\ UNCHANGED sideVars
    /\ UNCHANGED loopVars
    /\ UNCHANGED pipeVars

\* the consumer calls read() on the reader of the outer stream
ConsumerReadStep ==
    /\ out.consumer = "open"
    /\ ~out.readPending
    /\ IF out.state = "closed"
       THEN /\ out' = [out EXCEPT !.consumer = "done"]
            /\ pull' = pull
       ELSE IF out.state = "errored"
       THEN /\ out' = [out EXCEPT !.consumer = "errored"]
            /\ pull' = pull
       ELSE IF out.queue # <<>>
       THEN LET o1 == [out EXCEPT !.queue = Tail(@),
                                  !.delivered = Append(@, Head(out.queue))]
            IN IF o1.closeRequested /\ o1.queue = <<>>
               THEN /\ out' = [o1 EXCEPT !.state = "closed"]
                    /\ pull' = pull
               ELSE /\ out' = o1
                    /\ pull' = CallPull(pull, o1)
       ELSE /\ out' = [out EXCEPT !.readPending = TRUE]
            /\ pull' = CallPull(pull, out')
    /\ UNCHANGED << innerStreamReaders, isClosed, sources, producer >>

\* ConsumerRead of a stitchable stream used by itself
ConsumerRead ==
    /\ ConsumerReadStep
    /\ UNCHANGED sideVars
    /\ UNCHANGED loopVars
    /\ UNCHANGED pipeVars

StreamNext ==
    \/ AddStream
    \/ CloseStream
    \/ EnqueueDirect
    \/ PullBegin
    \/ ReadSettled
    \/ ConsumerRead

\* the stitchable stream by itself, its first pull asked for by start()
StreamSpecInit ==
    /\ LoopInit
    /\ returnToQueen = FALSE
    /\ agentCaps = [A |-> 0, B |-> 0, L |-> 0]
    /\ innerStreamReaders = <<>>
    /\ isClosed = FALSE
    /\ pull = [pc |-> "called", pullAgain |-> FALSE]
    /\ out = NewOut
    /\ sources = NoSources
    /\ producer = NewProducer
    /\ PipeInit
    /\ SideInit

StreamSpec == StreamSpecInit /\ [][StreamNext]_vars

(***************************************************************************)
(* Properties of the stitchable stream.                                    *)
(***************************************************************************)
SourceEvents(es) == SelectSeq(es, LAMBDA e : e[1] # 0)

RECURSIVE ConcatSources(_)
ConcatSources(n) ==
    IF n = 0 THEN <<>>
    ELSE ConcatSources(n - 1) \o [i \in 1..sources[n].len |-> << n, i >>]

IsPrefix(a, b) == Len(a) <= Len(b) /\ a = SubSeq(b, 1, Len(a))

\* C9: the output is the concatenation of the added sources' events, source
\* after source in the order they were added, each source's events in their
\* own order: what was delivered or waits in the queue is a prefix of it, and
\* a consumer that sees the end has received all of it.
C9_StitchedInOrder ==
    /\ IsPrefix(SourceEvents(out.delivered \o out.queue),
                ConcatSources(Cardinality(DOMAIN sources)))
    /\ out.consumer = "done" =>
           SourceEvents(out.delivered) = ConcatSources(Cardinality(DOMAIN sources))

C9_Witness ==
    /\ out.consumer = "done"
    /\ Cardinality(DOMAIN sources) = 2
    /\ sources[1].len = 2
    /\ sources[2].len = 2
    /\ Len(out.delivered) = 5

\* C10: a source that failed is treated as exhausted and does not end the
\* output: it has left the readers, the output still delivers while sources
\* are queued, and completes when none is queued and close() was called.
C10_FailedSourceSkipped ==
    \A s \in DOMAIN sources :
        sources[s].failed =>
            /\ \A i \in 1..Len(innerStreamReaders) : innerStreamReaders[i] # s
            /\ innerStreamReaders # <<>> => out.state = "readable"
            /\ (innerStreamReaders = <<>> /\ isClosed) =>
                   (out.state = "closed" \/ out.closeRequested)

(***************************************************************************)
(* Swarm.streamText (src/src/swarm.ts, 319-849): the background task of    *)
(* the turn loop feeding the stitchable stream, the two forks made of it   *)
(* with tee() and pipeThrough(), and their readers.  An event id <<s, i>>  *)
(* stands for events.src[s][i], the i-th chunk of the stream of the s-th   *)
(* model call, and <<0, k>> for events.direct[k], a chunk the task         *)
(* enqueued itself.                                                        *)
(***************************************************************************)
Chunk(type, agent, text, id, to) ==
    [type |-> type, agent |-> agent, text |-> text, id |-> id, to |-> to]

\* the chunk behind event id e, given the chunks ev
ChunkIn(ev, e) == IF e[1] = 0 THEN ev.direct[e[2]] ELSE ev.src[e[1]][e[2]]

ChunkOf(e) == ChunkIn(events, e)

\* what streamText is invoked with here: a user message and maxTurns: 2, the
\* swarm's settings for the rest
StreamTextOptions ==
    { [input |-> "content", contextUpdate |-> Undefined, setAgent |-> "-",
       maxTurns |-> 2, returnToQueen |-> "undef"] }

\* the steps the model makes in a streamed call: an answer, or a handover
\* call with or without text before it
StreamSteps(a) ==
    { [names |-> << >>, fr |-> "stop", text |-> TRUE] }
    \cup { [names |-> << t >>, fr |-> "tool-calls", text |-> x] :
              t \in { u \in AgentTools(a) : ToolType(u) = "handover" },
              x \in BOOLEAN }

\* the chunks lastResult.fullStream carries for one step: the text, the tool
\* calls, the results of the tools that were executed
StepChunks(st, firstId, r, k) ==
    (IF st.text
     THEN << Chunk("text-delta", "-", << << r, k >> >>, 0, "-") >> ELSE << >>)
    \o [i \in 1..Len(st.names) |-> Chunk("tool-call", "-", << >>, firstId + i, "-")]
    \o [i \in 1..Len(SelectSeq(st.names, HasExecutor)) |->
            Chunk("tool-result", "-", << >>, firstId + i, "-")]

\* the last chunk of lastResult.fullStream
FinishChunk == Chunk("finish", "-", << >>, 0, "-")

\* lastResult.text: the text of the call's text-delta chunks
RECURSIVE TextOf(_)
TextOf(cs) ==
    IF cs = << >> THEN << >>
    ELSE (IF Head(cs).type = "text-delta" THEN Head(cs).text ELSE << >>)
         \o TextOf(Tail(cs))

\* finalText += text
FinalTextLast(ft, text) == text
FinalTextAdd(ft, text) == ft \o text

\* fullStream's transform: a chunk without agent gets the active agent
Tag(c, e, a) == IF c.agent # "-" THEN c ELSE [c EXCEPT !.agent = a]

\* the transform of fullStream on the next chunk of its branch
TransformFull(f, a, ev) ==
    LET e == Head(f.queue)
    IN [f EXCEPT !.queue = Tail(@), !.seen = Append(@, e),
                 !.held = << [e |-> e, part |-> Tag(ChunkIn(ev, e), e, a)] >>]

\* a transform that forwards the text of every chunk and never errors
TransformTextAll(f, ev) ==
    LET e == Head(f.queue)
    IN [f EXCEPT !.queue = Tail(@), !.seen = Append(@, e),
                 !.held = << [e |-> e, part |-> ChunkIn(ev, e).text] >>]

\* the transform of textStream on the next chunk of its branch: the text of
\* a text-delta goes on, an error chunk errors the fork with the error of
\* that chunk (named by its event id), the rest is left out
TransformText(f, ev) ==
    LET e == Head(f.queue)
        c == ChunkIn(ev, e)
        fk == [f EXCEPT !.queue = Tail(@), !.seen = Append(@, e)]
    IN IF c.type = "text-delta"
       THEN [fk EXCEPT !.held = << [e |-> e, part |-> c.text] >>]
       ELSE IF c.type = "error"
       THEN [fk EXCEPT !.state = "errored", !.queue = << >>, !.error = e]
       ELSE fk

\* a transform runs when its branch has a chunk and the chunk it gave before
\* has been read
CanTransform(f) == f.state = "open" /\ f.queue # << >> /\ f.held = << >>

RECURSIVE Flow(_, _, _)
Flow(fs, a, ev) ==
    IF CanTransform(fs.full)
    THEN Flow([fs EXCEPT !.full = TransformFull(fs.full, a, ev)], a, ev)
    ELSE IF CanTransform(fs.text)
    THEN Flow([fs EXCEPT !.text = TransformText(fs.text, ev)], a, ev)
    ELSE fs

\* stream.tee(): a chunk read from the stream goes to every branch that was
\* not cancelled
TeeTargetsOpenFirst(fs) ==
    IF fs.text.state = "open" THEN {"text"} ELSE {"full"}
TeeTargets(fs) == { f \in {"text", "full"} : fs[f].state = "open" }

\* the chunks es reach the branches and, from there, the transforms
Deliver(fs, es, a, ev) ==
    Flow([ text |-> IF "text" \in TeeTargets(fs)
                    THEN [fs.text EXCEPT !.queue = @ \o es] ELSE fs.text,
           full |-> IF "full" \in TeeTargets(fs)
                    THEN [fs.full EXCEPT !.queue = @ \o es] ELSE fs.full,
           rest |-> fs.rest \o es ], a, ev)

\* the chunks the reader of the tee got in this step
NewDelivered == SubSeq(out'.delivered, Len(out.delivered) + 1, Len(out'.delivered))

\* the tee ends with the stitched stream: closed branches keep their queues,
\* errored branches lose them, and so does everything piped from them
Propagate(fs, o) ==
    IF o.state = "errored"
    THEN [ text |-> IF fs.text.state = "open"
                    THEN [fs.text EXCEPT !.state = "errored", !.queue = << >>,
                                         !.held = << >>, !.error = o.error]
                    ELSE fs.text,
           full |-> IF fs.full.state = "open"
                    THEN [fs.full EXCEPT !.state = "errored", !.queue = << >>,
                                         !.held = << >>, !.error = o.error]
                    ELSE fs.full,
           rest |-> << >> ]
    ELSE fs

\* chunks a branch and the writable side of the transform piped from it hold
\* before the branch stops asking the tee for more
BranchRoom == 2

BranchDemand(f) == f.state = "open" /\ Len(f.queue) < BranchRoom

\* the tee reads the stitched stream while one of its branches asks for more;
\* the branch left in `stream` after the second teeStream() has no reader
TeeDemand ==
    \/ BranchDemand(forks.text)
    \/ BranchDemand(forks.full)
    \/ Len(forks.rest) < HighWaterMark

\* the code between two awaits of the background task runs without a break;
\* the catch block starts some time after the await that rejected
TaskBusy ==
    \/ pc = "afterHandover"
    \/ (pc = "done" /\ task.state = "running")

\* the stream calls processPull inside the operation that makes it ask for a
\* pull: processPull reaches its first await before anything else runs
PullStarting == pull.pc = "called" /\ ~TaskBusy

\* a branch that asks for more makes the tee read the stitched stream in the
\* same operation
TeeStarting ==
    /\ task.state # "none"
    /\ ~TaskBusy
    /\ ~PullStarting
    /\ TeeDemand
    /\ out.consumer = "open"
    /\ ~out.readPending

\* a loop that attaches the stream of round n and one more
AttachSourceAhead(n, a) ==
    /\ ~isClosed
    /\ sources' = sources @@
           [s \in {n, n + 1} |->
               [len |-> 0, fails |-> FALSE, read |-> 0, failed |-> FALSE]]
    /\ innerStreamReaders' = innerStreamReaders \o << n, n + 1 >>
    /\ pull' = Wake(pull)
    /\ events' = [events EXCEPT !.src = @ \o << << >>, << >> >>,
                                !.agent = @ \o << a, a >>]

\* addStream(lastResult.fullStream) at the top of round n
AttachSource(n, a) ==
    /\ ~isClosed
    /\ sources' = sources @@
           (n :> [len |-> 0, fails |-> FALSE, read |-> 0, failed |-> FALSE])
    /\ innerStreamReaders' = Append(innerStreamReaders, n)
    /\ pull' = Wake(pull)
    /\ events' = [events EXCEPT !.src = Append(@, << >>),
                                !.agent = Append(@, a)]

\* streamText: the promises, the stitched stream (its start() asks for the
\* first pull), the forks, and the background task up to its first await
StreamTextStart ==
    /\ pc = "idle"
    /\ UNCHANGED sideVars
    /\ \E o \in StreamTextOptions : Invoke("stream", o)
    /\ sources' = (1 :> [len |-> 0, fails |-> FALSE, read |-> 0, failed |-> FALSE])
    /\ innerStreamReaders' = << 1 >>
    /\ pull' = [pc |-> "called", pullAgain |-> FALSE]
    /\ events' = [NoEvents EXCEPT !.src = << << >> >>, !.agent = << activeAgent' >>]
    /\ forks' = NoForks
    /\ finalText' = << >>
    /\ completion' = [p \in CompletionPromises |-> "pending"]
    /\ task' = [state |-> "running"]
    /\ UNCHANGED << isClosed, out, producer >>

\* a step of the streamed model call: its chunks enter lastResult.fullStream,
\* which ends with the call
StreamModelStep ==
    /\ mode = "stream"
    /\ UNCHANGED sideVars
    /\ pc = "model"
    /\ ~PullStarting
    /\ ~TeeStarting
    /\ \E st \in StreamSteps(activeAgent) :
         /\ ModelStepWith(st.names, st.fr)
         /\ LET cs == StepChunks(st, nextId, rounds, callSteps + 1)
                    \o (IF pc' = "returned" THEN << FinishChunk >> ELSE << >>)
            IN /\ events' = [events EXCEPT
                                 !.src[rounds] = @ \o cs,
                                 !.ended = IF pc' = "returned"
                                           THEN @ \cup { rounds } ELSE @]
               /\ sources' = [sources EXCEPT ![rounds].len = @ + Len(cs)]
    /\ UNCHANGED << innerStreamReaders, isClosed, pull, out, producer >>
    /\ UNCHANGED << forks, finalText, completion, task >>

\* the streamed model call fails: its stream is errored, its promises reject
StreamModelThrow ==
    /\ mode = "stream"
    /\ UNCHANGED sideVars
    /\ ~PullStarting
    /\ ~TeeStarting
    /\ ModelThrowLoop
    /\ sources' = [sources EXCEPT ![rounds].len = sources[rounds].read,
                                  ![rounds].fails = TRUE]
    /\ events' = [events EXCEPT !.ended = @ \cup { rounds }]
    /\ UNCHANGED << innerStreamReaders, isClosed, pull, out, producer >>
    /\ UNCHANGED << forks, finalText, completion, task >>

\* the task goes on after the model call: finalText += text, the loop body up
\* to the handover executor, or to the next round, or to the end of the loop
StreamAfterModel ==
    /\ mode = "stream"
    /\ UNCHANGED sideVars
    /\ ~PullStarting
    /\ ~TeeStarting
    /\ AfterModelLoop
    /\ finalText' = FinalTextAdd(finalText, TextOf(events.src[rounds]))
    /\ IF rounds' # rounds
       THEN /\ AttachSource(rounds', activeAgent')
            /\ UNCHANGED << isClosed, out, producer >>
       ELSE UNCHANGED << streamVars, events >>
    /\ UNCHANGED << forks, completion, task >>

\* the synthesized tool-result part of a handover, pushed into the stream
HandoverPart(call, previous, to) ==
    Chunk("tool-result", previous, << >>, call.toolCallId, to)

\* the handover executor returned: the new agent, the context, enqueue(part)
StreamHandoverApply ==
    /\ mode = "stream"
    /\ UNCHANGED sideVars
    /\ ~PullStarting
    /\ ~TeeStarting
    /\ HandoverApplyLoop
    /\ LET x == << 0, Len(events.direct) + 1 >>
           r == CtrlEnqueue(out, x)
       IN /\ ~r.threw
          /\ out' = r.out
          /\ pull' = CallPull(pull, r.out)
          /\ events' = [events EXCEPT !.direct =
                           Append(@, HandoverPart(handover.call, activeAgent,
                                                  activeAgent'))]
          /\ producer' = [producer EXCEPT !.direct = @ + 1]
          /\ forks' = Deliver(forks, NewDelivered, activeAgent, events')
    /\ UNCHANGED << innerStreamReaders, isClosed, sources >>
    /\ UNCHANGED << finalText, completion, task >>

\* the handover executor threw
StreamHandoverThrow ==
    /\ mode = "stream"
    /\ UNCHANGED sideVars
    /\ ~PullStarting
    /\ ~TeeStarting
    /\ HandoverThrowLoop
    /\ UNCHANGED streamVars
    /\ UNCHANGED pipeVars

\* the rest of the loop body after a handover: the next round, or the end
StreamAfterHandover ==
    /\ mode = "stream"
    /\ UNCHANGED sideVars
    /\ AfterHandoverLoop
    /\ IF rounds' # rounds
       THEN /\ AttachSource(rounds', activeAgent')
            /\ UNCHANGED << isClosed, out, producer >>
       ELSE UNCHANGED << streamVars, events >>
    /\ UNCHANGED << forks, finalText, completion, task >>

(***************************************************************************)
(* The end of the background task.  The statements after the loop and the  *)
(* statements of the catch block run in order; one that throws ends the    *)
(* run.  A run state m holds the stream, the chunks the task enqueued and  *)
(* the promises.                                                           *)
(***************************************************************************)
\* after the loop (the state update is part of the loop's last step)
TryTailResolveFirst ==
    << [op |-> "resolve", p |-> "finishReason"],
       [op |-> "closeStream"],
       [op |-> "resolve", p |-> "activeAgent"],
       [op |-> "resolve", p |-> "text"],
       [op |-> "resolve", p |-> "messages"],
       [op |-> "resolve", p |-> "context"] >>
TryTail ==
    << [op |-> "closeStream"],
       [op |-> "resolve", p |-> "finishReason"],
       [op |-> "resolve", p |-> "activeAgent"],
       [op |-> "resolve", p |-> "text"],
       [op |-> "resolve", p |-> "messages"],
       [op |-> "resolve", p |-> "context"] >>

\* catch (error)
CatchTail ==
    << [op |-> "enqueueError"],
       [op |-> "closeStream"],
       [op |-> "reject", p |-> "finishReason"],
       [op |-> "reject", p |-> "activeAgent"],
       [op |-> "reject", p |-> "text"],
       [op |-> "reject", p |-> "messages"],
       [op |-> "reject", p |-> "context"] >>

\* resolve / reject of createResolvablePromise: the first settlement stays
Settle(c, p, how) == IF c[p] = "pending" THEN [c EXCEPT ![p] = how] ELSE c

RunState ==
    [out |-> out, pull |-> pull, isClosed |-> isClosed,
     direct |-> events.direct, completion |-> completion, threw |-> FALSE,
     calls |-> << >>]

Exec(stmt, m) ==
    LET m1 == [m EXCEPT !.calls = Append(@, stmt)]
    IN CASE stmt.op = "closeStream" ->
              LET m2 == [m1 EXCEPT !.isClosed = TRUE, !.pull = Wake(m.pull)]
              IN IF innerStreamReaders = << >>
                 THEN [m2 EXCEPT !.out = CtrlClose(m.out).out,
                                 !.threw = CtrlClose(m.out).threw]
                 ELSE m2
         [] stmt.op = "enqueueError" ->
              LET r == CtrlEnqueue(m.out, << 0, Len(m.direct) + 1 >>)
              IN IF r.threw THEN [m1 EXCEPT !.threw = TRUE]
                 ELSE [m1 EXCEPT
                          !.out = r.out,
                          !.pull = CallPull(m.pull, r.out),
                          !.direct = Append(@, Chunk("error", activeAgent,
                                                     << >>, 0, "-"))]
         [] stmt.op = "resolve" ->
              [m1 EXCEPT !.completion = Settle(@, stmt.p, "resolved")]
         [] stmt.op = "reject" ->
              [m1 EXCEPT !.completion = Settle(@, stmt.p, "rejected")]

RECURSIVE RunTail(_, _)
RunTail(stmts, m) ==
    IF stmts = << >> \/ m.threw THEN m
    ELSE RunTail(Tail(stmts), Exec(Head(stmts), m))

\* the run state becomes the state; a run that threw in the catch block
\* leaves the task rejected, with nobody to handle it
Conclude(m, how) ==
    /\ out' = m.out
    /\ pull' = m.pull
    /\ isClosed' = m.isClosed
    /\ events' = [events EXCEPT !.direct = m.direct]
    /\ producer' = [producer EXCEPT !.direct = Len(m.direct),
                                    !.closed = m.isClosed]
    /\ completion' = m.completion
    /\ task' = [state |-> IF m.threw THEN "crashed" ELSE how, calls |-> m.calls]
    /\ forks' = Deliver(forks, NewDelivered, activeAgent, events')
    /\ UNCHANGED << innerStreamReaders, sources, finalText >>
    /\ UNCHANGED loopVars

\* the task leaves the loop: closeStream() and the promises resolve; if that
\* throws, the catch block runs
TaskEnd ==
    /\ mode = "stream"
    /\ UNCHANGED sideVars
    /\ pc = "done"
    /\ task.state = "running"
    /\ LET m == RunTail(TryTail, RunState)
       IN IF m.threw
          THEN Conclude(RunTail(CatchTail, [m EXCEPT !.threw = FALSE]), "rejected")
          ELSE Conclude(m, "resolved")

\* the task caught an error of the loop: the catch block runs
TaskCatch ==
    /\ mode = "stream"
    /\ UNCHANGED sideVars
    /\ pc = "failed"
    /\ task.state = "running"
    /\ Conclude(RunTail(CatchTail, RunState), "rejected")

(***************************************************************************)
(* The stitched stream, its tee and the forks while the task is suspended. *)
(***************************************************************************)
StreamPullBegin ==
    /\ ~TaskBusy
    /\ UNCHANGED sideVars
    /\ PullBeginStep
    /\ forks' = Deliver(forks, NewDelivered, activeAgent, events)
    /\ UNCHANGED << events, finalText, completion, task >>
    /\ UNCHANGED loopVars

\* read() of the stream of a model call settles when the call has produced a
\* chunk the stream has not given yet, or has ended
StreamReadSettled ==
    /\ ~TaskBusy
    /\ UNCHANGED sideVars
    /\ ~PullStarting
    /\ ~TeeStarting
    /\ pull.pc = "reading"
    /\ LET s == ActiveReader(innerStreamReaders)
       IN sources[s].read < sources[s].len \/ s \in events.ended
    /\ ReadSettledStep
    /\ forks' = Deliver(forks, NewDelivered, activeAgent, events)
    /\ UNCHANGED << events, finalText, completion, task >>
    /\ UNCHANGED loopVars

\* the tee reads the stitched stream
TeeRead ==
    /\ task.state # "none"
    /\ UNCHANGED sideVars
    /\ ~TaskBusy
    /\ ~PullStarting
    /\ TeeDemand
    /\ ConsumerReadStep
    /\ forks' = Deliver(forks, NewDelivered, activeAgent, events)
    /\ UNCHANGED << events, finalText, completion, task >>
    /\ UNCHANGED loopVars

\* an error of the stitched stream reaches the branches of the tee
TeeError ==
    /\ ~TaskBusy
    /\ UNCHANGED sideVars
    /\ ~PullStarting
    /\ ~TeeStarting
    /\ out.state = "errored"
    /\ forks # Propagate(forks, out)
    /\ forks' = Propagate(forks, out)
    /\ UNCHANGED << events, finalText, completion, task >>
    /\ UNCHANGED streamVars
    /\ UNCHANGED loopVars

\* the reader of fork f reads: the chunk held for it, or the end
ForkRead(f) ==
    /\ task.state # "none"
    /\ UNCHANGED sideVars
    /\ ~TaskBusy
    /\ ~PullStarting
    /\ ~TeeStarting
    /\ forks[f].state = "open"
    /\ IF forks[f].held # << >>
       THEN forks' = Flow([forks EXCEPT ![f].got = Append(@, Head(forks[f].held)),
                                        ![f].held = << >>], activeAgent, events)
       ELSE /\ forks[f].queue = << >>
            /\ out.consumer = "done"
            /\ forks' = [forks EXCEPT ![f].state = "done"]
    /\ UNCHANGED << events, finalText, completion, task >>
    /\ UNCHANGED streamVars
    /\ UNCHANGED loopVars

\* cancel() on a fork: the branch is cancelled and what it held is dropped
Cancelled(f) ==
    IF f.state = "open"
    THEN [f EXCEPT !.state = "cancelled", !.queue = << >>, !.held = << >>]
    ELSE f

\* the consumer gives the result up and cancels the forks.  The tee cancels
\* the stitched stream only when all its branches are cancelled, and the one
\* left in `stream` never is
ConsumerCancel ==
    /\ task.state # "none"
    /\ UNCHANGED sideVars
    /\ ~TaskBusy
    /\ ~PullStarting
    /\ ~TeeStarting
    /\ \E f \in {"text", "full"} : forks[f].state = "open"
    /\ forks' = [forks EXCEPT !.text = Cancelled(@), !.full = Cancelled(@)]
    /\ UNCHANGED << events, finalText, completion, task >>
    /\ UNCHANGED streamVars
    /\ UNCHANGED loopVars

StreamTextNext ==
    \/ StreamTextStart
    \/ StreamModelStep
    \/ StreamModelThrow
    \/ StreamAfterModel
    \/ StreamHandoverApply
    \/ StreamHandoverThrow
    \/ StreamAfterHandover
    \/ TaskEnd
    \/ TaskCatch
    \/ StreamPullBegin
    \/ StreamReadSettled
    \/ TeeRead
    \/ TeeError
    \/ \E f \in {"text", "full"} : ForkRead(f)
    \/ ConsumerCancel

\* a swarm without per-agent caps that returns to its queen
StreamTextInit ==
    /\ Init
    /\ returnToQueen = TRUE
    /\ agentCaps = [A |-> 0, B |-> 0, L |-> 0]

StreamTextSpec == StreamTextInit /\ [][StreamTextNext]_vars

\* the events a fork holds for its reader or has given to it
Kept(f) ==
    { f.queue[i] : i \in 1..Len(f.queue) }
    \cup { f.held[i].e : i \in 1..Len(f.held) }
    \cup { f.got[i].e : i \in 1..Len(f.got) }

\* a source whose stream ended without error and was read to its end
Completed(s) ==
    /\ s \in events.ended
    /\ ~sources[s].fails
    /\ sources[s].read = sources[s].len

\* C11: once a later source has failed, every event of an already-completed
\* source that had reached the output is still buffered for the reader of
\* fullStream or has been read by it: none was dropped.
C11_BufferedEventsSurvive ==
    \A i \in 1..Len(out.delivered) :
        LET e == out.delivered[i]
        IN (/\ forks.full.state # "cancelled"
            /\ e[1] # 0
            /\ Completed(e[1])
            /\ \E s \in DOMAIN sources : s > e[1] /\ sources[s].failed)
           => e \in Kept(forks.full)

\* the events behind the parts a fork has ready for its reader or gave to it
Given(f) ==
    [i \in 1..Len(f.got) |-> f.got[i].e] \o [i \in 1..Len(f.held) |-> f.held[i].e]

IsTextDelta(e) == ChunkOf(e).type = "text-delta"

PipelineRoom == HighWaterMark + BranchRoom + 1

FromSource(e) == e[1] # 0

\* events read from the sources that the reader of fork f has not taken yet
Backlog(f) ==
    Len(SelectSeq(out.queue, FromSource))
    + Len(SelectSeq(f.queue, FromSource))
    + Len(SelectSeq([i \in 1..Len(f.held) |-> f.held[i].e], FromSource))

\* C13: the events read from the sources and not yet consumed by a fork,
\* the slowest included, stay within the fixed buffer sizes of the streams
\* between the sources and that fork.
C13_BackpressureBounded ==
    \A f \in {"text", "full"} :
        forks[f].state = "open" => Backlog(forks[f]) <= PipelineRoom

\* the consumer has cancelled textStream and fullStream
OutputCancelled ==
    forks.text.state = "cancelled" /\ forks.full.state = "cancelled"

\* C14: once the consumer has cancelled the streamed output the producer
\* loop is released: no step attaches a further source to the output.
C14_CancelReleasesProducer ==
    [][OutputCancelled => DOMAIN sources' = DOMAIN sources]_vars

Settled(p) == completion[p] \in {"resolved", "rejected"}

\* the statements the end of the task ran that settle promise p
SettlingCalls(p) ==
    { i \in 1..Len(task.calls) :
        task.calls[i].op \in {"resolve", "reject"} /\ task.calls[i].p = p }

ErrorEvents == { k \in 1..Len(events.direct) : events.direct[k].type = "error" }

\* C16: when the turn loop has failed and the background task has ended,
\* the output holds one terminal error event and was closed, not errored,
\* and the five completion promises are rejected, none left pending.
C16_FailureReported ==
    (pc = "failed" /\ task.state \in {"rejected", "crashed"}) =>
        /\ Cardinality(ErrorEvents) = 1
        /\ isClosed
        /\ out.state # "errored"
        /\ \A p \in CompletionPromises : completion[p] = "rejected"

\* the parts fullStream has ready for its reader or gave to it
FullParts == forks.full.got \o forks.full.held

\* C17: every event of a model call's stream that fullStream delivers
\* carries the agent of the round that produced it, the agent that was
\* active when the round's stream was attached to the output.
C17_TaggedWithRoundAgent ==
    \A i \in 1..Len(FullParts) :
        FromSource(FullParts[i].e) =>
            FullParts[i].part.agent = events.agent[FullParts[i].e[1]]

\* a tool-result the background task put into the output for a handover
IsHandoverResult(e) == e[1] = 0 /\ ChunkOf(e).type = "tool-result"

\* C18: the tool-result event of a handover carries the agent that issued
\* the call and, as handedOverTo, the agent handed over to (the agent of the
\* next round), and it comes out after every event of the round that issued
\* the call and before every event of the next round.
C18_HandoverResultPlaced ==
    \A i \in 1..Len(out.delivered) :
        LET x == out.delivered[i]
            r == executed[x[2]].round
        IN IsHandoverResult(x) =>
              /\ ChunkOf(x).agent = events.agent[r]
              /\ Len(events.agent) > r => ChunkOf(x).to = events.agent[r + 1]
              /\ \A j \in 1..Len(out.delivered) :
                    LET y == out.delivered[j]
                    IN FromSource(y) => (IF y[1] <= r THEN j < i ELSE i < j)

\* the concatenation of the items textStream yielded
RECURSIVE Joined(_)
Joined(items) ==
    IF items = << >> THEN << >> ELSE Head(items).part \o Joined(Tail(items))

\* C19: when the invocation ended without error, a reader that has read
\* textStream to its end got items whose concatenation is the value of the
\* text promise, and so is the concatenation of the textDelta of the
\* text-delta events got by a reader that has read fullStream to its end.
C19_TextRoundTrip ==
    task.state = "resolved" =>
        /\ forks.text.state = "done" => Joined(forks.text.got) = finalText
        /\ forks.full.state = "done" =>
               TextOf([i \in 1..Len(forks.full.got) |-> forks.full.got[i].part])
                   = finalText

C19_Witness ==
    /\ task.state = "resolved"
    /\ completion.text = "resolved"
    /\ forks.text.state = "done"
    /\ forks.full.state = "done"
    /\ rounds = 2
    /\ Len(executed) = 1
    /\ Len(finalText) = 2

(***************************************************************************)
(* toDataStream (src/src/swarm.ts, 637-825): the lines of the data stream  *)
(* protocol written for the parts read from fullStream, by their prefix.   *)
(***************************************************************************)
DataStreamOptions ==
    [experimental_sendStart : BOOLEAN, experimental_sendFinish : BOOLEAN,
     sendReasoning : BOOLEAN, sendSources : BOOLEAN,
     getErrorMessage : BOOLEAN]

\* the switch on chunk.type
LinesOf(part, o) ==
    CASE part.type = "text-delta" -> << "0" >>
      [] part.type = "reasoning" ->
             IF o.sendReasoning THEN << "reasoning" >> ELSE << >>
      [] part.type = "redacted-reasoning" ->
             IF o.sendReasoning THEN << "redacted_reasoning" >> ELSE << >>
      [] part.type = "reasoning-signature" ->
             IF o.sendReasoning THEN << "reasoning_signature" >> ELSE << >>
      [] part.type = "source" ->
             IF o.sendSources THEN << "source" >> ELSE << >>
      [] part.type = "file" -> << "8" >>
      [] part.type = "tool-call-streaming-start" -> << "b" >>
      [] part.type = "tool-call-delta" -> << "c" >>
      [] part.type = "tool-call" -> << "9" >>
      [] part.type = "tool-result" -> << "a" >>
      [] part.type = "step-start" -> << "f" >>
      [] part.type = "step-finish" -> << "e" >>
      [] part.type = "finish" ->
             IF o.experimental_sendFinish THEN << "d" >> ELSE << >>
      [] part.type = "error" -> << "3" >>
      [] OTHER -> << >>

RECURSIVE EncodeParts(_, _)
EncodeParts(parts, o) ==
    IF parts = << >> THEN << >>
    ELSE LinesOf(Head(parts), o) \o EncodeParts(Tail(parts), o)

ToDataStream(parts, o) ==
    (IF o.experimental_sendStart THEN << "2" >> ELSE << >>)
    \o EncodeParts(parts, o)

\* the output of toDataStream(o) once it has read fullStream to its end
DataStreamOutput(o) ==
    ToDataStream([i \in 1..Len(forks.full.got) |-> forks.full.got[i].part], o)

IsFinishLine(l) == l = "d"

\* C20: for an invocation that ended without error and whose fullStream
\* was encoded to its end, the output has no finish line (d:) when
\* experimental_sendFinish is false and exactly one when it is not.
C20_OneFinishLine ==
    (task.state = "resolved" /\ forks.full.state = "done") =>
        \A o \in DataStreamOptions :
            Len(SelectSeq(DataStreamOutput(o), IsFinishLine))
                = IF o.experimental_sendFinish THEN 1 ELSE 0

(***************************************************************************)
(* toDataStream line by line: start() of the ReadableStream writes the     *)
(* start event, reads fullStream part by part, writes the line of every    *)
(* part, and closes; its catch block writes an error line and closes.  A   *)
(* line is the sequence of its characters.                                 *)
(***************************************************************************)
MaxParts == 2
MaxTextLen == 1

BS == "\\"
DQ == "\""
NL == "\n"
CR == "\r"
TAB == "\t"

\* the characters of a text: the five that are escaped and an ordinary one
Chars == {BS, DQ, NL, CR, TAB, "n"}
Texts == SeqsUpTo(Chars, MaxTextLen + 2)

\* the characters of the texts that the parts of a stream carry: a quote,
\* a newline and an ordinary one
StreamChars == {DQ, NL, "n"}
StreamTexts == SeqsUpTo(StreamChars, MaxTextLen)

\* s.replace(/c/g, r)
RECURSIVE Replace(_, _, _)
Replace(s, c, r) ==
    IF s = << >> THEN << >>
    ELSE (IF Head(s) = c THEN r ELSE << Head(s) >>) \o Replace(Tail(s), c, r)

\* the five replacements with the backslash replaced last
EscapeBackslashLast(s) ==
    Replace(Replace(Replace(Replace(Replace(s,
        DQ, << BS, DQ >>), NL, << BS, "n" >>), CR, << BS, "r" >>),
        TAB, << BS, "t" >>), BS, << BS, BS >>)

\* .replace(/\\/g, "\\\\").replace(/"/g, '\\"').replace(/\n/g, "\\n")
\* .replace(/\r/g, "\\r").replace(/\t/g, "\\t")
Escape(s) ==
    Replace(Replace(Replace(Replace(Replace(s,
        BS, << BS, BS >>), DQ, << BS, DQ >>), NL, << BS, "n" >>),
        CR, << BS, "r" >>), TAB, << BS, "t" >>)

\* what JSON.stringify returns for an object: JSON on one line
Stringified == "{json}"

\* `<code>:<payload>\n`
Line(code, payload) == << code, ":" >> \o payload \o << NL >>

Quoted(s) == << DQ >> \o Escape(s) \o << DQ >>

DefaultErrorMessage == << "An error occurred" >>

\* what a call of options.getErrorMessage does: return a text of up to n
\* characters, or throw
FormatterOutcomes(n) ==
    { [threw |-> TRUE, text |-> << >>] }
        \cup { [threw |-> FALSE, text |-> t] : t \in SeqsUpTo(StreamChars, n) }

\* the calls of getErrorMessage that options o lead to
FormatterCalls(o, n) ==
    IF o.getErrorMessage THEN FormatterOutcomes(n)
    ELSE { [threw |-> FALSE, text |-> << >>] }

\* options?.getErrorMessage ? options.getErrorMessage(e) : "An error occurred"
ErrorMessage(o, f) ==
    IF o.getErrorMessage THEN f
    ELSE [threw |-> FALSE, text |-> DefaultErrorMessage]

\* the parts fullStream can hold, by type; text-delta and reasoning carry
\* their textDelta
PartTypes ==
    {"redacted-reasoning", "reasoning-signature", "source", "file",
     "tool-call-streaming-start", "tool-call-delta", "tool-call",
     "tool-result", "step-start", "step-finish", "finish", "error",
     "unknown-type"}

FullStreamParts ==
    { [type |-> t, textDelta |-> << >>] : t \in PartTypes }
        \cup { [type |-> t, textDelta |-> x] :
                 t \in {"text-delta", "reasoning"}, x \in StreamTexts }

\* the payload written for a part of type t that is not text
PayloadOf(t) ==
    IF t = "file" THEN << "[", Stringified, "]" >> ELSE << Stringified >>

\* the body of the loop for one part: the lines it enqueues, or the throw
EncodeChunk(part, o, f) ==
    LET codes == LinesOf(part, o)
    IN  IF part.type = "error" /\ ErrorMessage(o, f).threw
        THEN [threw |-> TRUE, lines |-> << >>]
        ELSE [threw |-> FALSE,
              lines |->
                  IF codes = << >> THEN << >>
                  ELSE IF part.type = "text-delta"
                  THEN << Line(codes[1], Quoted(part.textDelta)) >>
                  ELSE IF part.type = "reasoning"
                  THEN << Line(codes[1], part.textDelta) >>
                  ELSE IF part.type = "error"
                  THEN << Line(codes[1], Quoted(ErrorMessage(o, f).text)) >>
                  ELSE << Line(codes[1], PayloadOf(part.type)) >>]

\* no start event whatever the option says
StartLinesNever(o) == << >>

\* if (options?.experimental_sendStart !== false) enqueue(`2:{}\n`)
StartLines(o) ==
    IF o.experimental_sendStart THEN << Line("2", << "{", "}" >>) >>
    ELSE << >>

\* the catch block: an error line and close(); a throw of getErrorMessage
\* leaves start() rejected, which errors the stream
CatchEncoding(d, f) ==
    IF ErrorMessage(d.options, f).threw
    THEN [d EXCEPT !.state = "errored", !.caught = TRUE]
    ELSE [d EXCEPT !.state = "closed", !.caught = TRUE,
                   !.chars = @ + Len(f.text),
                   !.lines = Append(@, Line("3",
                                 Quoted(ErrorMessage(d.options, f).text)))]

\* toDataStream touches nothing but its byte stream
DataStreamFrame ==
    UNCHANGED << loopVars, streamVars, pipeVars, wrappedTools, hive >>

\* toDataStream(options) up to the first read of fullStream
ToDataStreamCall ==
    /\ dataStream.state = "none"
    /\ \E o \in DataStreamOptions :
           dataStream' = [state |-> "reading", options |-> o,
                          lines |-> StartLines(o), read |-> 0, chars |-> 0,
                          caught |-> FALSE]
    /\ DataStreamFrame

\* the characters the texts of this stream may still take
CharsLeft == MaxTextLen - dataStream.chars

\* one turn of `for await (const chunk of fullStream)`
EncodePart ==
    /\ dataStream.state = "reading"
    /\ dataStream.read < MaxParts
    /\ \E part \in FullStreamParts :
         /\ Len(part.textDelta) <= CharsLeft
         /\ \E f \in IF part.type = "error"
                      THEN FormatterCalls(dataStream.options, CharsLeft)
                      ELSE { [threw |-> FALSE, text |-> << >>] } :
              LET e == EncodeChunk(part, dataStream.options, f)
                  d == [dataStream EXCEPT
                            !.read = @ + 1,
                            !.chars = @ + Len(part.textDelta) + Len(f.text),
                            !.lines = @ \o e.lines]
              IN  IF e.threw
                  THEN \E g \in FormatterCalls(d.options, CharsLeft) :
                           dataStream' = CatchEncoding(d, g)
                  ELSE dataStream' = d
    /\ DataStreamFrame

\* the read of fullStream rejects
ReadRejects ==
    /\ dataStream.state = "reading"
    /\ \E g \in FormatterCalls(dataStream.options, CharsLeft) :
           dataStream' =
               CatchEncoding(dataStream, g)
    /\ DataStreamFrame

\* fullStream is done: controller.close()
EncodeEnd ==
    /\ dataStream.state = "reading"
    /\ dataStream' = [dataStream EXCEPT !.state = "closed"]
    /\ DataStreamFrame

DataStreamNext ==
    \/ ToDataStreamCall
    \/ EncodePart
    \/ ReadRejects
    \/ EncodeEnd

DataStreamSpec == StreamTextInit /\ [][DataStreamNext]_vars

StartLine == Line("2", << "{", "}" >>)

IsStartLine(l) == l[1] = "2"

\* C21: once toDataStream has run its start, the output holds exactly one
\* start line (2:{}) and it is the first line when experimental_sendStart
\* is not false, and holds no start line when it is false.
C21_StartSentinel ==
    dataStream.state # "none" =>
        IF dataStream.options.experimental_sendStart
        THEN /\ Len(dataStream.lines) >= 1
             /\ dataStream.lines[1] = StartLine
             /\ Len(SelectSeq(dataStream.lines, IsStartLine)) = 1
        ELSE SelectSeq(dataStream.lines, IsStartLine) = << >>

C21_Witness ==
    /\ dataStream.state = "closed"
    /\ dataStream.options.experimental_sendStart
    /\ dataStream.read = MaxParts
    /\ Len(dataStream.lines) = MaxParts + 1

\* the codes of the documented table: text increment, start, finish,
\* action-call-start, argument-increment, action-call-complete,
\* action-result, step-finish, error, and the reasoning, source and file
\* extras
DocumentedCodes ==
    {"0", "2", "d", "b", "c", "9", "a", "e", "3", "reasoning",
     "redacted_reasoning", "reasoning_signature", "source", "8"}

\* C22: every line of the encoded output starts with a code of the
\* documented table: a part of any other type has been skipped without
\* a line.
C22_OnlyDocumentedCodes ==
    dataStream.state # "none" =>
        \A i \in 1..Len(dataStream.lines) :
            dataStream.lines[i][1] \in DocumentedCodes

IsErrorLine(l) == l[1] = "3"

\* C23: once an exception has been caught while the encoder read or
\* encoded a part, the byte stream is closed, not errored, and the last
\* line of the output is an error line (code 3).
C23_ExceptionBecomesErrorLine ==
    (dataStream.state # "none" /\ dataStream.caught) =>
        /\ dataStream.state = "closed"
        /\ dataStream.lines # << >>
        /\ IsErrorLine(dataStream.lines[Len(dataStream.lines)])

\* JSON.parse of the inside of a string literal: the text it stands for,
\* or not ok when a quote or a control character is not escaped
RECURSIVE DecodeBody(_)
DecodeBody(s) ==
    IF s = << >> THEN [ok |-> TRUE, text |-> << >>]
    ELSE IF Head(s) = BS
    THEN IF Len(s) >= 2 /\ s[2] \in {BS, DQ, "n", "r", "t"}
         THEN LET c == CASE s[2] = "n" -> NL
                         [] s[2] = "r" -> CR
                         [] s[2] = "t" -> TAB
                         [] OTHER -> s[2]
                  r == DecodeBody(SubSeq(s, 3, Len(s)))
              IN  [ok |-> r.ok, text |-> << c >> \o r.text]
         ELSE [ok |-> FALSE, text |-> << >>]
    ELSE IF Head(s) \in {DQ, NL, CR, TAB}
    THEN [ok |-> FALSE, text |-> << >>]
    ELSE LET r == DecodeBody(Tail(s))
         IN  [ok |-> r.ok, text |-> << Head(s) >> \o r.text]

ParseJSONString(p) ==
    IF Len(p) >= 2 /\ p[1] = DQ /\ p[Len(p)] = DQ
    THEN DecodeBody(SubSeq(p, 2, Len(p) - 1))
    ELSE [ok |-> FALSE, text |-> << >>]

ParsesAsJSON(p) ==
    \/ p \in { << Stringified >>, << "[", Stringified, "]" >>, << "{", "}" >> }
    \/ ParseJSONString(p).ok

PayloadOfLine(l) == SubSeq(l, 3, Len(l) - 1)

\* decoding the string written for text t gives t back
RoundTrips(t) == ParseJSONString(Quoted(t)) = [ok |-> TRUE, text |-> t]

\* C24: every line of the output is `<code>:<payload>` and one newline at
\* its end, its payload parses as JSON, and the payload written for a
\* text decodes back to that text, for every text over the characters
\* backslash, quote, newline, carriage return, tab and an ordinary one.
C24_LinesAreJSON ==
    dataStream.state # "none" =>
        /\ \A i \in 1..Len(dataStream.lines) :
               LET l == dataStream.lines[i]
               IN  /\ Len(l) >= 4
                   /\ l[2] = ":"
                   /\ l[Len(l)] = NL
                   /\ ParsesAsJSON(PayloadOfLine(l))
        /\ \A t \in Texts : RoundTrips(t)

(***************************************************************************)
(* wrapTools: every tool of the agent becomes a tool of the model client.  *)
(* A parameter schema is the function from the names of its shape to       *)
(* their schemas.                                                          *)
(***************************************************************************)
SWARM_CONTEXT_PROPERTY_NAME == "swarmContext"

ParameterNames == {SWARM_CONTEXT_PROPERTY_NAME, "city", "topic"}
FieldSchemas == {"string", "number"}
WrappedToolNames == {"t1", "t2"}

Shapes == UNION { [F -> FieldSchemas] : F \in SUBSET ParameterNames }

AgentToolDefs ==
    [type : {"function", "handover"}, shape : Shapes, execute : BOOLEAN]

ToolRecords == UNION { [N -> AgentToolDefs] : N \in SUBSET WrappedToolNames }

\* an omit that leaves the schema as it is
OmitNothing(shape, key) == shape

\* parameters.omit({ [key]: true })
Omit(shape, key) == [f \in DOMAIN shape \ {key} |-> shape[f]]

\* the body of the map: the parameters and the executor of the CoreTool
WrapTool(agentTool) ==
    LET hides == SWARM_CONTEXT_PROPERTY_NAME \in DOMAIN agentTool.shape
    IN  [parameters |->
             IF hides THEN Omit(agentTool.shape, SWARM_CONTEXT_PROPERTY_NAME)
             ELSE agentTool.shape,
         execute |->
             IF agentTool.type = "handover" THEN "none"
             ELSE IF hides
             THEN (IF agentTool.execute THEN "withSwarmContext" ELSE "none")
             ELSE "functionWrapper"]

WrapTools(tools) ==
    IF tools = Undefined THEN Undefined
    ELSE [n \in DOMAIN tools |-> WrapTool(tools[n])]

\* this.wrapTools(this._activeAgent.tools)
WrapToolsCall ==
    /\ ~wrappedTools.called
    /\ \E tools \in ToolRecords \cup {Undefined} :
           wrappedTools' = [called |-> TRUE, tools |-> tools,
                            wrapped |-> WrapTools(tools)]
    /\ UNCHANGED << loopVars, streamVars, pipeVars, dataStream, hive >>

WrapToolsNext == WrapToolsCall

WrapToolsSpec == StreamTextInit /\ [][WrapToolsNext]_vars

\* the tools wrapTools was given that declare swarmContext
Declaring ==
    { n \in DOMAIN wrappedTools.tools :
          SWARM_CONTEXT_PROPERTY_NAME \in DOMAIN wrappedTools.tools[n].shape }

\* C25: for every tool, function or handover, whose parameter schema
\* declares swarmContext, the schema given to the model client does not
\* hold swarmContext and holds every other declared field, and no other,
\* with the schema it was declared with.
C25_ContextFieldHidden ==
    (wrappedTools.called /\ wrappedTools.tools # Undefined) =>
        \A n \in Declaring :
            LET declared == wrappedTools.tools[n].shape
                facing == wrappedTools.wrapped[n].parameters
            IN  /\ SWARM_CONTEXT_PROPERTY_NAME \notin DOMAIN facing
                /\ DOMAIN facing =
                       DOMAIN declared \ {SWARM_CONTEXT_PROPERTY_NAME}
                /\ \A f \in DOMAIN facing : facing[f] = declared[f]

C25_Witness ==
    /\ wrappedTools.called
    /\ wrappedTools.tools # Undefined
    /\ \E n \in Declaring, m \in Declaring :
           /\ wrappedTools.tools[n].type = "function"
           /\ wrappedTools.tools[m].type = "handover"
           /\ DOMAIN wrappedTools.wrapped[m].parameters = {"city", "topic"}

\* the calls of the step just made whose executor returned a context update
UpdatingCalls(res) ==
    { i \in 1..Len(res.toolCalls) :
          /\ HasExecutor(res.toolCalls[i].toolName)
          /\ FunctionContext(res.toolCalls[i].toolName) # Undefined }

\* C26: a model step in which a function tool's executor returns a context
\* update ends with the update merged into the shared context and with the
\* tool's result handed to the model client, and the context changes in no
\* step other than a merge, so the rounds and invocations that follow read
\* the updated values.
C26_FunctionUpdateMerged ==
    [][ /\ callSteps' = callSteps + 1 =>
            \A i \in UpdatingCalls(lastResult') :
                LET c == lastResult'.toolCalls[i]
                    u == FunctionContext(c.toolName)
                IN  /\ \A k \in DOMAIN u :
                           k \in DOMAIN context' /\ context'[k] = u[k]
                    /\ \E j \in 1..Len(lastResult'.toolResults) :
                           lastResult'.toolResults[j] = c.toolCallId
        /\ context' # context => lastMerge'.path # "none" ]_vars

C26_Witness ==
    /\ pc = "returned"
    /\ lastMerge.path = "function"
    /\ UpdatingCalls(lastResult) # {}
    /\ "user" \notin DOMAIN lastMerge.before
    /\ context.user = "a"

(***************************************************************************)
(* A Hive and the swarms spawned from it.  Arrays are held by reference:   *)
(* hive.heap holds the arrays, a swarm's messages is the index of one.     *)
(* Array 1 is an array of the caller, who may pass it as `messages` to     *)
(* spawnSwarm and to an invocation.  An invocation is seen by what it      *)
(* leaves in the instance: the agent, the context and the history.         *)
(***************************************************************************)
MaxSwarms == 2
MaxHistory == 3
MaxInvocations == 3

CallerArray == 1

\* the user message and the response of an invocation on swarm s
HiveUserMessage(s) == << "user", s >>
HiveResponse(s) == << << "assistant", s >> >>

HiveSwarms == 1..MaxSwarms

\* new Hive({ queen, defaultContext })
MakeHive ==
    /\ ~hive.made
    /\ hive' = [made |-> TRUE, defaultContext |-> InitialContext,
                heap |-> << << << "user", 0 >> >> >>, swarms |-> << >>,
                acting |-> 0, calls |-> 0]
    /\ UNCHANGED << loopVars, streamVars, pipeVars, dataStream, wrappedTools >>

\* Hive.spawnSwarm(options): new Swarm({ queen, initialContext, messages });
\* the constructor keeps options.messages, or a new empty array
SpawnSwarm ==
    /\ hive.made
    /\ Len(hive.swarms) < MaxSwarms
    /\ \E given \in BOOLEAN :
           LET ref == IF given THEN CallerArray ELSE Len(hive.heap) + 1
           IN  hive' = [hive EXCEPT
                   !.heap = IF given THEN @ ELSE Append(@, << >>),
                   !.swarms = Append(@, [messages |-> ref,
                                         context |-> hive.defaultContext,
                                         activeAgent |-> "A"]),
                   !.acting = 0]
    /\ UNCHANGED << loopVars, streamVars, pipeVars, dataStream, wrappedTools >>

\* what the turn loop may leave behind: the agent it ended with and the
\* context updates of its tools and handovers
LoopOutcomes ==
    [agent : {"A", "B"}, update : {Undefined, [topic |-> "b"]}]

\* handleUpdatesAndOverrides: this.messages = invocationOptions.messages
MessagesAtStart(s, supplied) ==
    IF supplied THEN CallerArray ELSE hive.swarms[s].messages

\* swarm s: generateText({ content }) or generateText({ messages }); the
\* history is stored with this.messages.push(...)
HiveGenerateText(s) ==
    /\ hive.made
    /\ s \in 1..Len(hive.swarms)
    /\ hive.calls < MaxInvocations
    /\ \E supplied \in BOOLEAN, r \in LoopOutcomes :
           LET ref == MessagesAtStart(s, supplied)
               added == (IF supplied THEN << >> ELSE << HiveUserMessage(s) >>)
                        \o HiveResponse(s)
           IN  /\ Len(hive.heap[ref]) + Len(added) <= MaxHistory
               /\ hive' = [hive EXCEPT
                      !.heap[ref] = @ \o added,
                      !.swarms[s] = [messages |-> ref,
                                     context |-> Merge(@.context, r.update),
                                     activeAgent |-> r.agent],
                      !.acting = s,
                      !.calls = @ + 1]
    /\ UNCHANGED << loopVars, streamVars, pipeVars, dataStream, wrappedTools >>

\* swarm s: streamText; the history is stored in a new array,
\* this.messages = [...this.messages, ...responseMessages], then push
HiveStreamText(s) ==
    /\ hive.made
    /\ s \in 1..Len(hive.swarms)
    /\ hive.calls < MaxInvocations
    /\ \E supplied \in BOOLEAN, r \in LoopOutcomes :
           LET ref == MessagesAtStart(s, supplied)
               added == HiveResponse(s)
                        \o (IF supplied THEN << >> ELSE << HiveUserMessage(s) >>)
           IN  /\ Len(hive.heap[ref]) + Len(added) <= MaxHistory
               /\ hive' = [hive EXCEPT
                      !.heap = Append(@, hive.heap[ref] \o added),
                      !.swarms[s] = [messages |-> Len(hive.heap) + 1,
                                     context |-> Merge(@.context, r.update),
                                     activeAgent |-> r.agent],
                      !.acting = s,
                      !.calls = @ + 1]
    /\ UNCHANGED << loopVars, streamVars, pipeVars, dataStream, wrappedTools >>

\* swarm s: updateContext(update)
HiveUpdateContext(s) ==
    /\ hive.made
    /\ s \in 1..Len(hive.swarms)
    /\ hive.calls < MaxInvocations
    /\ \E u \in OobUpdates :
           hive' = [hive EXCEPT
               !.swarms[s].context = Merge(@, u),
               !.acting = s,
               !.calls = @ + 1]
    /\ UNCHANGED << loopVars, streamVars, pipeVars, dataStream, wrappedTools >>

HiveNext ==
    \/ MakeHive
    \/ SpawnSwarm
    \/ \E s \in HiveSwarms : HiveGenerateText(s)
    \/ \E s \in HiveSwarms : HiveStreamText(s)
    \/ \E s \in HiveSwarms : HiveUpdateContext(s)

HiveSpec == StreamTextInit /\ [][HiveNext]_vars

\* getMessages(), getContext() and activeAgent of swarm t
SwarmView(h, t) ==
    [messages |-> h.heap[h.swarms[t].messages],
     context |-> h.swarms[t].context,
     activeAgent |-> h.swarms[t].activeAgent]

\* C27: an invocation or an updateContext on one swarm of a Hive leaves
\* the agent, the context and the message history of every other swarm
\* of the Hive, and the Hive's default context, as they were.
C27_SwarmsIsolated ==
    [][ (hive.made /\ hive'.acting # 0) =>
            /\ hive'.defaultContext = hive.defaultContext
            /\ \A t \in 1..Len(hive.swarms) :
                   t # hive'.acting => SwarmView(hive', t) = SwarmView(hive, t)
      ]_vars

\* C28: when an invocation given `content` is over, the history of the
\* instance is the history before the invocation, then the user message,
\* then the messages the invocation produced, in the order they were
\* produced, for generateText and for streamText alike.
C28_HistoryInConversationOrder ==
    (pc = "done" /\ options.input = "content") =>
        messages = initialMessages \o responseMessages

\* no step of the invocation yielded a call of a handover tool
NoHandoverCall ==
    /\ executed = << >>
    /\ \A i \in 1..Len(lastResult.toolCalls) :
           ToolType(lastResult.toolCalls[i].toolName) # "handover"

\* the agent the invocation started with
StartAgent == IF options.setAgent # "-" THEN options.setAgent ELSE queen

\* an answer without any call: its finish reason is passed on and the
\* transcript holds no tool message
PlainAnswer ==
    nextId = 0 =>
        /\ result.finishReason = lastResult.finishReason
        /\ CountRole(responseMessages, "tool") = 0

StreamLiveSpec ==
    /\ StreamSpecInit
    /\ [][StreamNext]_vars
    /\ WF_vars(PullBegin)
    /\ WF_vars(ReadSettled)
    /\ WF_vars(ConsumerRead)

\* no source that was added fails
NoSourceFails == \A s \in DOMAIN sources : ~sources[s].fails

\* event i of source s has been added, and no added source fails
Attached(s, i) ==
    /\ s \in DOMAIN sources
    /\ i <= sources[s].len
    /\ NoSourceFails

HasDelivered(s, i) ==
    \E k \in 1..Len(out.delivered) : out.delivered[k] = << s, i >>

\* the output was errored, by a failing source or by a rejected pull
OutputErrored == out.state = "errored"

\* C30: for a consumer that keeps reading, every event of every added
\* source is eventually delivered, and once close() has been called the
\* output eventually completes (unless a source fails or the output is
\* errored).
C30_AttachedSourcesDelivered ==
    /\ \A s \in 1..MaxSources, i \in 1..MaxSrcLen :
           Attached(s, i)
               ~> (HasDelivered(s, i) \/ ~NoSourceFails \/ OutputErrored)
    /\ (isClosed /\ NoSourceFails)
           ~> (out.consumer = "done" \/ ~NoSourceFails \/ OutputErrored)

(***************************************************************************)
(* Further properties of the forks and of the turn loop.                   *)
(***************************************************************************)
\* the payloads textStream has ready for its reader or gave to it
TextItems ==
    [i \in 1..Len(forks.text.got) |-> forks.text.got[i].part]
    \o [i \in 1..Len(forks.text.held) |-> forks.text.held[i].part]

\* the textDelta payloads of the text-delta events among es, in order
TextDeltas(es) ==
    LET ds == SelectSeq(es, IsTextDelta)
    IN [i \in 1..Len(ds) |-> ChunkOf(ds[i]).text]

IsErrorEvent(e) == ChunkOf(e).type = "error"

\* C31: textStream forwards the textDelta payloads of the text-delta events
\* that went through its transform, in order, and nothing for an event of
\* another type (a prefix of them once the fork was cancelled or errored);
\* an error event that goes through errors the fork with the error of that
\* event, and no event goes through after it.
C31_TextProjection ==
    /\ IsPrefix(TextItems, TextDeltas(forks.text.seen))
    /\ forks.text.state \in {"open", "done"} =>
           TextItems = TextDeltas(forks.text.seen)
    /\ \A i \in 1..Len(forks.text.seen) :
           IsErrorEvent(forks.text.seen[i]) =>
               /\ forks.text.state = "errored"
               /\ forks.text.error = forks.text.seen[i]
               /\ i = Len(forks.text.seen)

C31_Witness ==
    /\ forks.text.state = "errored"
    /\ forks.text.error \in { forks.text.seen[i] : i \in 1..Len(forks.text.seen) }
    /\ Len(forks.text.got) >= 1
    /\ Len(forks.text.seen) >= 3

\* the handover calls of the model step just made
HandoverCallIds(res) ==
    { res.toolCalls[i].toolCallId :
          i \in { j \in 1..Len(res.toolCalls) :
                      ToolType(res.toolCalls[j].toolName) = "handover" } }

\* C32: a model call never resolves a handover call (its tool has no
\* executor there); the turn loop runs the executor of a handover call at
\* most once per call id, and only for a call id it has not processed; the
\* processed ids are ids whose executor the loop ran, and none of them is
\* among the calls the loop counts as unhandled.
C32_HandoverRunByLoopOnce ==
    /\ \A i \in 1..Len(lastResult.toolResults) :
           lastResult.toolResults[i] \notin HandoverCallIds(lastResult)
    /\ \A i, j \in 1..Len(executed) :
           i # j => executed[i].toolCallId # executed[j].toolCallId
    /\ processedHandoverCallIds \subseteq ExecutedIds
    /\ pc = "handover" =>
           /\ handover.call.toolCallId \notin processedHandoverCallIds
           /\ executed[Len(executed)].toolCallId = handover.call.toolCallId
    /\ \A i \in 1..Len(UnhandledToolCalls(lastResult, processedHandoverCallIds)) :
           UnhandledToolCalls(lastResult, processedHandoverCallIds)[i].toolCallId
               \notin processedHandoverCallIds

C32_Witness ==
    /\ pc = "afterHandover"
    /\ Len(executed) = 2
    /\ Cardinality(processedHandoverCallIds) = 2
    /\ rounds = 2

\* what is left of the global budget when a round starts
RemainingBudget == maxTotalSteps - CountRole(responseMessages, "assistant")

\* C33: the step budget given to the model client in a round is the
\* smaller of the agent's own turn cap, when it has one, and the global
\* budget less the assistant messages the invocation has produced.
C33_StepBudgetIsRemaining ==
    pc = "model" =>
        callMaxSteps =
            IF agentCaps[initialAgent] # 0
                   /\ agentCaps[initialAgent] < RemainingBudget
            THEN agentCaps[initialAgent]
            ELSE RemainingBudget

\* the round that just ran a handover was made by an agent with a turn cap,
\* its model call produced as many assistant messages as that cap, and the
\* global budget is not used up
CapExhausted ==
    /\ pc = "afterHandover"
    /\ agentCaps[initialAgent] # 0
    /\ CountRole(lastResult.messages, "assistant") = agentCaps[initialAgent]
    /\ RemainingBudget > 0

\* C34 as stated: after such a round the loop makes the queen the active
\* agent and starts the next round.
C34_CapReachedGoesOn ==
    [][ CapExhausted =>
            /\ pc' = "model"
            /\ rounds' = rounds + 1
            /\ activeAgent' = queen ]_vars

\* C34 amended: after such a round the loop ends: no further model call is
\* made, the invocation returns the finish reason of that round, and the
\* active agent is the queen if returnToQueen is in effect and stays the
\* agent handed over to if not.
C34_CapReachedEndsLoop ==
    [][ CapExhausted =>
            /\ pc' = "done"
            /\ rounds' = rounds
            /\ result'.status = "returned"
            /\ result'.finishReason = lastResult.finishReason
            /\ result'.loopAgent = activeAgent
            /\ activeAgent' =
                   IF options.returnToQueen = "true"
                      \/ (options.returnToQueen = "undef" /\ returnToQueen)
                   THEN queen ELSE activeAgent ]_vars

C34_Witness ==
    /\ pc = "done"
    /\ rounds = 1
    /\ maxTotalSteps = 2
    /\ CountRole(responseMessages, "assistant") = 1
    /\ agentCaps[initialAgent] = 1
    /\ Len(executed) = 1
    /\ activeAgent = "L"
    /\ queen = "A"
    /\ result.finishReason = "tool-calls"

\* C35 as stated: during an invocation the transcript only grows: what it
\* held before a step is what it holds, message for message, after it.
C35_TranscriptAppendOnly ==
    [][ pc # "idle" => IsPrefix(responseMessages, responseMessages') ]_vars

\* the edit the loop makes to message m of the round's last model step when
\* it applies a handover
HandoverEdit(m) ==
    IF m.role = "assistant"
    THEN [m EXCEPT !.calls = SelectSeq(@, LAMBDA id : id \notin handover.unused)]
    ELSE [m EXCEPT !.results = Append(@, handover.call.toolCallId)]

\* C35 amended: during an invocation no message leaves the transcript, and
\* a message in it changes only in the step that applies a handover, which
\* edits the messages of the model step that issued the call: it removes
\* the tool-call parts of the handover calls it passes over from the
\* assistant message and, in streamText, adds the synthesized result to
\* the tool message of that step.
C35_TranscriptEditedByHandoverOnly ==
    [][ pc # "idle" =>
            /\ Len(responseMessages') >= Len(responseMessages)
            /\ \A i \in 1..Len(responseMessages) :
                   responseMessages'[i] # responseMessages[i] =>
                       /\ pc = "handover"
                       /\ i >= Len(responseMessages) - 1
                       /\ responseMessages'[i] = HandoverEdit(responseMessages[i])
                       /\ responseMessages[i].role = "tool" => mode = "stream"
      ]_vars

C35_Witness ==
    /\ pc = "afterHandover"
    /\ mode = "generate"
    /\ discarded # {}
    /\ Len(lastResult.toolCalls) = 2
    /\ Len(responseMessages) = 2
    /\ Len(responseMessages[1].calls) = 1

(***************************************************************************)
(* Invocations whose model steps hold up to MaxWideCalls tool calls, in    *)
(* which no call of the model and no executor fails.                       *)
(***************************************************************************)
MaxWideCalls == 3

\* a model step of up to MaxWideCalls calls
ModelStepWide ==
    /\ pc = "model"
    /\ UNCHANGED sideVars
    /\ \E names \in SeqsUpTo(AgentTools(activeAgent), MaxWideCalls) :
           /\ nextId + Len(names) <= MaxWideCalls
           /\ ModelStepBody(names, IF names = << >> THEN "stop" ELSE "tool-calls")
    /\ UNCHANGED streamVars
    /\ UNCHANGED pipeVars

WideStepNext ==
    \/ StartInvocation
    \/ ModelStepWide
    \/ AfterModel
    \/ HandoverApply
    \/ AfterHandover

WideStepSpec == Init /\ [][WideStepNext]_vars

\* the ids of the handover calls of the invocation so far
HandoverIds == ExecutedIds \cup discarded \cup HandoverCallIds(lastResult)

\* the loop goes on with a model call
NextRoundFollows ==
    /\ pc = "afterHandover"
    /\ LoopAgain(responseMessages)
    /\ ~AgentCapReached(responseMessages)

\* C36: when a round has run a handover and the loop goes on, every
\* handover tool-call part of the transcript given to the next model call
\* has exactly one tool-result part with its call id, in a message after
\* the assistant message that holds the call.
C36_HandoverCallsHaveResults ==
    NextRoundFollows =>
        \A i \in 1..Len(responseMessages) :
            \A k \in 1..Len(responseMessages[i].calls) :
                LET d == responseMessages[i].calls[k]
                IN  d \in HandoverIds =>
                        /\ Cardinality(ResultParts(responseMessages, d)) = 1
                        /\ \A p \in ResultParts(responseMessages, d) : p[1] > i

\* the sources whose model call has not ended
Unfinished == { s \in DOMAIN sources : s \notin events.ended }

\* C37: the streams attached to the output are those of the rounds made so
\* far, one per model call; at most one of them is unfinished, the one of
\* the model call in flight, so the stream of a round is attached only
\* when the stream of every earlier round has been produced to its end.
C37_OneSourceInFlight ==
    task.state # "none" =>
        /\ DOMAIN sources = 1..rounds
        /\ Cardinality(Unfinished) <= 1
        /\ \A s \in Unfinished : s = rounds /\ pc = "model"
        /\ pc = "model" => Unfinished = { rounds }

C37_Witness ==
    /\ pc = "model"
    /\ rounds = 2
    /\ Unfinished = { 2 }
    /\ innerStreamReaders = << 1, 2 >>
    /\ sources[1].read < sources[1].len

\* C38: the argument the handover executor is run with holds every
\* argument of the model's tool call with the value the model generated,
\* and a context update the executor builds from its argument stores that
\* value.
C38_ExecutorGetsModelArgs ==
    /\ pc = "handover" =>
           \A k \in DOMAIN handover.call.args :
               /\ k \in DOMAIN handover.input
               /\ handover.input[k] = handover.call.args[k]
    /\ (pc = "afterHandover" /\ handover.call.toolName = "toB") =>
           lastMerge.update = [topic |-> handover.call.args.topic]

\* C39: a key of the context keeps its value in every step but one that
\* applies an update setting that key, and then it takes the update's
\* value; an out-of-band updateContext stores every key it sets.  So what
\* updateContext wrote while the invocation waited for a model call or for
\* an executor is still there after the loop's later merges.
C39_OutOfBandUpdateKept ==
    [][ /\ \A k \in DOMAIN context :
               /\ k \in DOMAIN context'
               /\ context'[k] # context[k] =>
                      /\ lastMerge'.path # "none"
                      /\ k \in DOMAIN lastMerge'.update
                      /\ context'[k] = lastMerge'.update[k]
        /\ oob' = oob + 1 =>
               \A k \in DOMAIN lastMerge'.update :
                   k \in DOMAIN context' /\ context'[k] = lastMerge'.update[k]
      ]_vars

\* updateContext ran while the handover executor was running, and the
\* executor's update, built from the argument read before it, is merged
C39_Witness ==
    /\ pc = "afterHandover"
    /\ oob = 1
    /\ lastMerge.path = "handover"
    /\ handover.returned.context = [topic |-> "null"]
    /\ lastMerge.before = [topic |-> "b", user |-> "null"]
    /\ lastMerge.update = [topic |-> "null"]
    /\ context = [topic |-> "null", user |-> "null"]

\* what the instance holds once generateText has rejected: the agent the
\* failing round started with, the keys of the updates, the history
LeftByAbort ==
    /\ activeAgent = initialAgent
    /\ (synthesized = << >> /\ options.setAgent # "-") =>
           activeAgent = options.setAgent
    /\ \A k \in DOMAIN Spread(options.contextUpdate) : k \in DOMAIN context
    /\ options.input = "messages" => messages = SuppliedMessages
    /\ \A i \in 1..Len(messages) : messages[i].inv = 0

\* C40: the step in which generateText rejects because a handover executor
\* threw writes nothing back: the active agent, the context and the history
\* are what the earlier rounds and the invocation's overrides made them
\* (the agent and the context update of the last handover applied, which
\* the next round started with, or the agent of setAgent; the keys of
\* contextUpdate; the supplied messages), and the history holds no message
\* of the invocation's transcript.
C40_AbortNotRolledBack ==
    [][ /\ (mode = "generate" /\ pc = "afterHandover" /\ pc' = "model") =>
               /\ initialAgent' = handover.returned.agent
               /\ handover.returned.context # Undefined =>
                      \A k \in DOMAIN handover.returned.context :
                          context'[k] = handover.returned.context[k]
        /\ (mode = "generate" /\ pc = "handover" /\ pc' = "failed") =>
               /\ activeAgent' = activeAgent
               /\ context' = context
               /\ messages' = messages
               /\ LeftByAbort
               /\ LeftByAbort' ]_vars

\* the second round's handover threw after the first round's handover had
\* changed the agent and the context, in an invocation with overrides
C40_Witness ==
    /\ pc = "failed"
    /\ mode = "generate"
    /\ result.cause = "handover"
    /\ rounds = 2
    /\ options.contextUpdate # Undefined
    /\ options.input = "messages"
    /\ synthesized # << >>
    /\ activeAgent = "B"
    /\ activeAgent # queen
    /\ "user" \in DOMAIN context
    /\ Len(responseMessages) >= 3
    /\ messages = SuppliedMessages

====
